---------------------------- MODULE Spec2Model ----------------------------
(***************************************************************************)
(* A model of the Yuki-Frame supervisor kernel: the per-tool inbox ring    *)
(* buffer (tool_queue.c), the event bus and its fan-out (event.c), the     *)
(* tool registry and lifecycle (tool.c) and the supervisor loop (main.c).  *)
(*                                                                         *)
(* Text is modelled as a sequence of tokens; a token is a string standing  *)
(* for a run of characters that holds no separator.  The separators '|',   *)
(* newline, quote and blank are tokens of their own.                       *)
(***************************************************************************)
EXTENDS Integers, Sequences, FiniteSets, TLC

VARIABLES
    queue,      \* ToolQueue under test (queue harness)
    calls,      \* number of tool_queue_add calls made on `queue`
    last,       \* the last call on `queue`: operation, argument, result, queue before
    ops,        \* the operations applied to `queue` so far, as a set of names
    registry,   \* registry.tools[0 .. count-1]: the Tool records, in registration order
    current_iterator,   \* the cursor shared by tool_get_first / tool_get_next
    bus,        \* the MessageBus: queue, head, tail, count
    pc,         \* where framework_run is within its iteration
    drain_tool, \* framework_run's local `tool` during the drain: a registry index, -1 for NULL
    published,  \* number of event_publish calls made so far (the serial of the last event)
    commands,   \* number of command files processed so far
    last_publish,   \* the last event_publish call: type, sender and the code returned
    matched,    \* per tool: events the fan-out found subscribed
    refused,    \* per tool: pushes a full Block inbox turned down
    cleared,    \* per tool: lines tool_queue_clear discarded
    gone,       \* per tool: the lines that left the inbox, in the order they left
    g_running,  \* main.c's g_running flag: framework_run loops while it is set
    build,      \* which tool.c draft and platform layer are compiled: "windows", "posix", "portable"
    life,       \* one Tool record driven through its lifecycle
    heeds_term, \* whether the child of `life` exits when asked to terminate gracefully
    spawns,     \* platform_spawn_process calls for `life` since the last start by a control verb
    episode,    \* platform_spawn_process calls for `life` since the last start other than a crash restart
    lastop,     \* the last lifecycle call on `life`: name, record before, value returned
    formatted,  \* the Event handed to event_format (parse harness)
    parsed,     \* what event_parse made of the line handed to it, NULL before the call
    stdout_line,    \* a line read from a tool's stdout and handed to event_parse
    list_tool,  \* the `tool` of a list command run on a control thread: a registry
                \* index, -1 for NULL, -2 while no list has been asked for
    listed,     \* the names that list command has reported so far
    pipe,       \* per tool: the bytes its child has written to stdout and the kernel has not read
    line_buffer,    \* framework_run's line_buffer[0 .. line_pos - 1] (socket draft of main.c)
    line_from,  \* the tools whose bytes are in line_buffer
    line_done,  \* the last line framework_run completed: its text and the tools its bytes came from
    writes,     \* number of writes the children have made to their stdout
    command_file,   \* the command file: NULL when absent, else the line a client wrote
    response_file,  \* the response file: NULL when absent, else the response it holds
    executed,   \* the serials of the command lines the kernel has executed, in order
    written     \* number of command files clients have written

qvars == <<queue, calls, last, ops>>

kvars == <<registry, current_iterator, bus, pc, drain_tool, published, commands,
           last_publish, matched, refused, cleared, gone, g_running>>

lvars == <<build, life, heeds_term, spawns, episode, lastop>>

pvars == <<formatted, parsed, stdout_line>>

(* The variables of the harnesses that stand apart from the queue, the      *)
(* kernel and the lifecycle                                                 *)
ivars == <<list_tool, listed>>

(* The drain of the socket draft of main.c *)
dvars == <<pipe, line_buffer, line_from, line_done, writes>>

(* The command-file transport *)
fvars == <<command_file, response_file, executed, written>>

hvars == <<formatted, parsed, stdout_line, list_tool, listed,
           pipe, line_buffer, line_from, line_done, writes,
           command_file, response_file, executed, written>>

vars == <<queue, calls, last, ops, registry, current_iterator, bus, pc, drain_tool,
          published, commands, last_publish, matched, refused, cleared, gone,
          g_running, build, life, heeds_term, spawns, episode, lastop,
          formatted, parsed, stdout_line, list_tool, listed,
          pipe, line_buffer, line_from, line_done, writes,
          command_file, response_file, executed, written>>

-----------------------------------------------------------------------------
(* Bounds of the model *)

MaxCapacity == 3    \* inbox capacities 1..MaxCapacity are explored
MaxPush == 10       \* at most this many tool_queue_add calls on the queue under test
MAX_EVENTS_QUEUE == 2   \* bus capacity (1000 in framework.h), scaled down
MaxPublish == 3     \* at most this many event_publish calls in a run
MaxCommands == 1    \* at most this many command files are processed in a run

-----------------------------------------------------------------------------
(* FrameworkError codes, framework.h *)

FW_OK == 0
FW_ERROR_GENERIC == -1
FW_ERROR_INVALID_ARG == -2
FW_ERROR_NOT_FOUND == -3
FW_ERROR_ALREADY_EXISTS == -4
FW_ERROR_PROCESS_FAILED == -5
FW_ERROR_PIPE_FAILED == -6
FW_ERROR_PARSE_FAILED == -7
FW_ERROR_QUEUE_FULL == -8
FW_ERROR_TIMEOUT == -9
FW_ERROR_IO == -11

(* QueuePolicy, tool_queue.h *)
QUEUE_POLICY_DROP_OLDEST == "DROP_OLDEST"
QUEUE_POLICY_DROP_NEWEST == "DROP_NEWEST"
QUEUE_POLICY_BLOCK == "BLOCK"
QueuePolicy == {QUEUE_POLICY_DROP_OLDEST, QUEUE_POLICY_DROP_NEWEST, QUEUE_POLICY_BLOCK}

(* A NULL slot of the messages array; no line is empty (each ends in a newline). *)
NULL == <<>>

-----------------------------------------------------------------------------
(* Events and their line form *)

Event(type, sender, data) == [type |-> type, sender |-> sender, data |-> data]

(* snprintf(event_msg, ..., "%s|%s|%s\n", type, sender, data) *)
EventMsg(event) ==
    event.type \o <<"|">> \o event.sender \o <<"|">> \o event.data \o <<"\n">>

-----------------------------------------------------------------------------
(* tool_queue.c: the inbox ring buffer *)

tool_queue_init(capacity, policy) ==
    [messages |-> [i \in 0..(capacity - 1) |-> NULL],
     capacity |-> capacity,
     head |-> 0,
     tail |-> 0,
     count |-> 0,
     policy |-> policy,
     dropped_count |-> 0,
     delivered_count |-> 0]

(* The tail of tool_queue_add: store at tail, advance tail, count++ *)
QueueStore(q, event_msg) ==
    [q EXCEPT !.messages[q.tail] = event_msg,
              !.tail = (q.tail + 1) % q.capacity,
              !.count = q.count + 1]

(* Faulty variants of the eviction: the drop is not counted; the head is not *)
(* advanced; the count is not decremented.                                  *)
QueueEvictHead_Uncounted(q) ==
    [q EXCEPT !.messages[q.head] = NULL,
              !.head = (q.head + 1) % q.capacity,
              !.count = q.count - 1]

QueueEvictHead_HeadKept(q) ==
    [q EXCEPT !.messages[q.head] = NULL,
              !.count = q.count - 1,
              !.dropped_count = q.dropped_count + 1]

QueueEvictHead_CountKept(q) ==
    [q EXCEPT !.messages[q.head] = NULL,
              !.head = (q.head + 1) % q.capacity,
              !.dropped_count = q.dropped_count + 1]

(* The QUEUE_POLICY_DROP_OLDEST arm: free the head slot, advance head *)
QueueEvictHead(q) ==
    [q EXCEPT !.messages[q.head] = NULL,
              !.head = (q.head + 1) % q.capacity,
              !.count = q.count - 1,
              !.dropped_count = q.dropped_count + 1]

(* Faulty variants of tool_queue_add: DropNewest does not count the drop;   *)
(* Block counts a drop.                                                     *)
tool_queue_add_NewestUncounted(q, event_msg) ==
    IF q.count >= q.capacity
    THEN CASE q.policy = QUEUE_POLICY_DROP_OLDEST ->
                [queue |-> QueueStore(QueueEvictHead(q), event_msg), result |-> FW_OK]
           [] OTHER -> [queue |-> q, result |-> FW_ERROR_QUEUE_FULL]
    ELSE [queue |-> QueueStore(q, event_msg), result |-> FW_OK]

tool_queue_add_BlockCounted(q, event_msg) ==
    IF q.count >= q.capacity
    THEN CASE q.policy = QUEUE_POLICY_DROP_OLDEST ->
                [queue |-> QueueStore(QueueEvictHead(q), event_msg), result |-> FW_OK]
           [] OTHER -> [queue |-> [q EXCEPT !.dropped_count = q.dropped_count + 1],
                        result |-> FW_ERROR_QUEUE_FULL]
    ELSE [queue |-> QueueStore(q, event_msg), result |-> FW_OK]

(* tool_queue_add: the queue afterwards and the code returned *)
tool_queue_add(q, event_msg) ==
    IF q.count >= q.capacity
    THEN CASE q.policy = QUEUE_POLICY_DROP_OLDEST ->
                [queue |-> QueueStore(QueueEvictHead(q), event_msg), result |-> FW_OK]
           [] q.policy = QUEUE_POLICY_DROP_NEWEST ->
                [queue |-> [q EXCEPT !.dropped_count = q.dropped_count + 1],
                 result |-> FW_ERROR_QUEUE_FULL]
           [] q.policy = QUEUE_POLICY_BLOCK ->
                [queue |-> q, result |-> FW_ERROR_QUEUE_FULL]
    ELSE [queue |-> QueueStore(q, event_msg), result |-> FW_OK]

(* tool_queue_peek: the head line, NULL when the queue is empty *)
tool_queue_peek(q) ==
    IF q.count = 0 THEN NULL ELSE q.messages[q.head]

(* tool_queue_remove *)
tool_queue_remove(q) ==
    IF q.count = 0
    THEN q
    ELSE [q EXCEPT !.messages[q.head] = NULL,
                   !.head = (q.head + 1) % q.capacity,
                   !.count = q.count - 1,
                   !.delivered_count = q.delivered_count + 1]

(* tool_queue_clear: every queued line is freed; head, tail and count reset *)
tool_queue_clear(q) ==
    [q EXCEPT !.messages = [i \in 0..(q.capacity - 1) |-> NULL],
              !.head = 0,
              !.tail = 0,
              !.count = 0]

tool_queue_count(q) == q.count
tool_queue_capacity(q) == q.capacity
tool_queue_dropped(q) == q.dropped_count
tool_queue_delivered(q) == q.delivered_count
tool_queue_is_full(q) == q.count >= q.capacity

(* The queued lines, oldest first: messages[head], messages[head+1], ... *)
QueueLines(q) ==
    [i \in 1..q.count |-> q.messages[(q.head + i - 1) % q.capacity]]

-----------------------------------------------------------------------------
(* ToolStatus, tool.h *)

TOOL_STOPPED == "STOPPED"
TOOL_STARTING == "STARTING"
TOOL_RUNNING == "RUNNING"
TOOL_STOPPING == "STOPPING"
TOOL_CRASHED == "CRASHED"
TOOL_ERROR == "ERROR"

(* A NULL char pointer argument *)
NullPtr == <<"(null)">>

(* A NULL slot of the bus *)
NoEvent == Event(<<>>, <<>>, <<>>)

-----------------------------------------------------------------------------
(* event.c: the bus *)

event_bus_init ==
    [queue |-> [i \in 0..(MAX_EVENTS_QUEUE - 1) |-> NoEvent],
     head |-> 0, tail |-> 0, count |-> 0]

(* Faulty variant of event_publish: a full bus is not refused *)
event_publish_Unbounded(b, type, sender, data) ==
    IF type = NullPtr \/ sender = NullPtr
    THEN [bus |-> b, result |-> FW_ERROR_INVALID_ARG]
    ELSE [bus |-> [b EXCEPT
                     !.queue[b.tail] = Event(type, sender, data),
                     !.tail = (b.tail + 1) % MAX_EVENTS_QUEUE,
                     !.count = b.count + 1],
          result |-> FW_OK]

(* event_publish: the bus afterwards and the code returned *)
event_publish(b, type, sender, data) ==
    IF type = NullPtr \/ sender = NullPtr
    THEN [bus |-> b, result |-> FW_ERROR_INVALID_ARG]
    ELSE IF b.count >= MAX_EVENTS_QUEUE
    THEN [bus |-> b, result |-> FW_ERROR_QUEUE_FULL]
    ELSE [bus |-> [b EXCEPT
                     !.queue[b.tail] =
                         Event(type, sender, IF data = NullPtr THEN <<>> ELSE data),
                     !.tail = (b.tail + 1) % MAX_EVENTS_QUEUE,
                     !.count = b.count + 1],
          result |-> FW_OK]

(* The events on the bus, oldest first *)
BusEvents(b) ==
    [i \in 1..b.count |-> b.queue[(b.head + i - 1) % MAX_EVENTS_QUEUE]]

-----------------------------------------------------------------------------
(* tool.c: records and lifecycle *)

(* tool_register.  The code fills in defaults (restart_on_crash false,       *)
(* max_restarts 3, max_queue_size 100, DROP_OLDEST, not on-demand) and       *)
(* leaves the fields to whoever holds the record; cfg gives the values they  *)
(* hold when the loop starts.                                                *)
ToolRecord(name, cfg) ==
    [name |-> name,
     status |-> TOOL_STOPPED,
     process |-> "none",
     restart_on_crash |-> cfg.restart_on_crash,
     max_restarts |-> cfg.max_restarts,
     restart_count |-> 0,
     subscriptions |-> cfg.subscriptions,
     inbox |-> tool_queue_init(cfg.max_queue_size, cfg.queue_policy),
     is_on_demand |-> cfg.is_on_demand,
     is_starting |-> FALSE,
     command_ok |-> cfg.command_ok,
     pipes_ok |-> TRUE,
     events_sent |-> 0,
     pipes |-> "closed"]

(* platform_is_process_running: GetExitCodeProcess(...) == STILL_ACTIVE *)
platform_is_process_running(process) == process = "alive"

(* Faulty variant of tool_start: a running tool is spawned again *)
tool_start_Respawn(tool) ==
    IF ~tool.command_ok
    THEN [tool |-> [tool EXCEPT !.status = TOOL_ERROR, !.process = "none"],
          result |-> FW_ERROR_PROCESS_FAILED, spawned |-> TRUE]
    ELSE IF ~tool.pipes_ok
    THEN [tool |-> [tool EXCEPT !.status = TOOL_ERROR, !.process = "none",
                                !.pipes = "open"],
          result |-> FW_ERROR_PIPE_FAILED, spawned |-> TRUE]
    ELSE [tool |-> [tool EXCEPT !.status = TOOL_RUNNING,
                                !.process = "alive",
                                !.pipes = "open"],
          result |-> FW_OK, spawned |-> TRUE]

(* Faulty variant of tool_start: a spawn that fails leaves the tool Starting *)
tool_start_FailureStarting(tool) ==
    IF tool.status = TOOL_RUNNING
    THEN [tool |-> tool, result |-> FW_OK, spawned |-> FALSE]
    ELSE IF ~tool.command_ok
    THEN [tool |-> [tool EXCEPT !.status = TOOL_STARTING, !.process = "none"],
          result |-> FW_ERROR_PROCESS_FAILED, spawned |-> TRUE]
    ELSE IF ~tool.pipes_ok
    THEN [tool |-> [tool EXCEPT !.status = TOOL_ERROR, !.process = "none",
                                !.pipes = "open"],
          result |-> FW_ERROR_PIPE_FAILED, spawned |-> TRUE]
    ELSE [tool |-> [tool EXCEPT !.status = TOOL_RUNNING,
                                !.process = "alive",
                                !.pipes = "open"],
          result |-> FW_OK, spawned |-> TRUE]

(* tool_start; platform_spawn_process succeeds when the command can be        *)
(* started, and then hands back the three pipe ends (pipes: stdin, stdout    *)
(* and stderr together, which the code always opens and closes as one)       *)
(* spawned: whether platform_spawn_process was called.  pipes_ok: whether    *)
(* the descriptors handed back are valid; when one is not, the process just  *)
(* created is terminated and the pipe handles that exist stay open.          *)
tool_start(tool) ==
    IF tool.status = TOOL_RUNNING
    THEN [tool |-> tool, result |-> FW_OK, spawned |-> FALSE]
    ELSE IF ~tool.command_ok
    THEN [tool |-> [tool EXCEPT !.status = TOOL_ERROR, !.process = "none"],
          result |-> FW_ERROR_PROCESS_FAILED, spawned |-> TRUE]
    ELSE IF ~tool.pipes_ok
    THEN [tool |-> [tool EXCEPT !.status = TOOL_ERROR, !.process = "none",
                                !.pipes = "open"],
          result |-> FW_ERROR_PIPE_FAILED, spawned |-> TRUE]
    ELSE [tool |-> [tool EXCEPT !.status = TOOL_RUNNING,
                                !.process = "alive",
                                !.pipes = "open"],
          result |-> FW_OK, spawned |-> TRUE]

(* Faulty variant of tool_stop: the lines tool_queue_clear frees are counted *)
(* as dropped                                                                *)
tool_stop_ClearCountsDropped(tool) ==
    IF tool.status # TOOL_RUNNING
    THEN [tool |-> tool, result |-> FW_OK, discarded |-> <<>>]
    ELSE [tool |-> [tool EXCEPT
                      !.inbox = [tool_queue_clear(tool.inbox) EXCEPT
                                   !.dropped_count = tool.inbox.dropped_count
                                                       + tool.inbox.count],
                      !.status = TOOL_STOPPED,
                      !.process = "none"],
          result |-> FW_OK,
          discarded |-> QueueLines(tool.inbox)]

(* Faulty variant of tool_stop: the inbox is cleared whatever the tool is *)
tool_stop_AlwaysClear(tool) ==
    IF tool.status # TOOL_RUNNING
    THEN [tool |-> tool, result |-> FW_OK, discarded |-> <<>>]
    ELSE [tool |-> [tool EXCEPT !.inbox = tool_queue_clear(tool.inbox),
                                !.status = TOOL_STOPPED,
                                !.process = "none"],
          result |-> FW_OK,
          discarded |-> QueueLines(tool.inbox)]

(* tool_stop: the record afterwards, the code returned, the lines discarded *)
tool_stop(tool) ==
    IF tool.status # TOOL_RUNNING
    THEN [tool |-> tool, result |-> FW_OK, discarded |-> <<>>]
    ELSE LET clear == ~tool.is_on_demand \/ ~tool.restart_on_crash
         IN [tool |-> [tool EXCEPT
                         !.inbox = IF clear THEN tool_queue_clear(tool.inbox)
                                   ELSE tool.inbox,
                         !.status = TOOL_STOPPED,
                         !.process = "none"],
             result |-> FW_OK,
             discarded |-> IF clear THEN QueueLines(tool.inbox) ELSE <<>>]

(* tool_restart: stop when running, count the restart, start *)
tool_restart(tool) ==
    LET stopped == tool_stop(tool)
        started == tool_start([stopped.tool EXCEPT
                                 !.restart_count = stopped.tool.restart_count + 1])
    IN [tool |-> started.tool, result |-> started.result,
        discarded |-> stopped.discarded, spawned |-> started.spawned]

(* tool_is_running: the record is only read *)
tool_is_running(tool) ==
    [tool |-> tool,
     result |-> tool.status = TOOL_RUNNING
                /\ platform_is_process_running(tool.process)]

(* Faulty variant of CheckToolCall: restarts without looking at restart_count *)
CheckToolCall_Unlimited(tool) ==
    IF tool.status = TOOL_RUNNING /\ ~platform_is_process_running(tool.process)
    THEN LET crashed == [tool EXCEPT !.status = TOOL_CRASHED,
                                     !.pipes = "closed"]
         IN IF crashed.restart_on_crash
            THEN [tool |-> tool_restart(crashed).tool,
                  spawned |-> tool_restart(crashed).spawned]
            ELSE [tool |-> crashed, spawned |-> FALSE]
    ELSE [tool |-> tool, spawned |-> FALSE]

(* One tool's turn in tool_check_health: the record afterwards and whether  *)
(* platform_spawn_process was called                                        *)
CheckToolCall(tool) ==
    IF tool.status = TOOL_RUNNING /\ ~platform_is_process_running(tool.process)
    THEN LET crashed == [tool EXCEPT !.status = TOOL_CRASHED,
                                     !.pipes = "closed"]
         IN IF crashed.restart_on_crash /\ crashed.restart_count < crashed.max_restarts
            THEN [tool |-> tool_restart(crashed).tool,
                  spawned |-> tool_restart(crashed).spawned]
            ELSE [tool |-> crashed, spawned |-> FALSE]
    ELSE [tool |-> tool, spawned |-> FALSE]

CheckTool(tool) == CheckToolCall(tool).tool

(* tool_check_health: every registered tool in turn *)
tool_check_health(tools) ==
    [i \in 1..Len(tools) |-> CheckTool(tools[i])]

-----------------------------------------------------------------------------
(* tool.c and the platform layer as compiled for POSIX.  A child that has   *)
(* exited stays "exited" (a zombie) until waitpid collects it; it is        *)
(* "reaped" afterwards.                                                     *)

(* platform_is_process_running: kill(handle, 0) succeeds for every process  *)
(* that is still in the process table, a zombie included                    *)
platform_is_process_running_posix(process) == process \in {"alive", "exited"}

(* platform_kill_process: SIGKILL when force, else SIGTERM; one waitpid     *)
(* with WNOHANG follows a delivered signal.  heeds says whether the child   *)
(* exits on SIGTERM.                                                        *)
platform_kill_process_posix(process, force, heeds) ==
    IF process = "none"
    THEN [process |-> process, result |-> FW_ERROR_INVALID_ARG]
    ELSE IF process = "exited"
    THEN [process |-> "reaped", result |-> FW_OK]
    ELSE IF process = "alive"
    THEN [process |-> IF force \/ heeds THEN "exited" ELSE "alive",
          result |-> FW_OK]
    ELSE [process |-> process, result |-> FW_OK]   \* ESRCH

(* platform_wait_process with a timeout: polls waitpid(WNOHANG) *)
platform_wait_process_posix(process) ==
    IF process = "none"
    THEN [process |-> process, result |-> FW_ERROR_INVALID_ARG]
    ELSE IF process = "exited"
    THEN [process |-> "reaped", result |-> FW_OK]
    ELSE IF process = "alive"
    THEN [process |-> process, result |-> FW_ERROR_TIMEOUT]
    ELSE [process |-> process, result |-> FW_ERROR_PROCESS_FAILED]

(* tool_stop: SIGTERM, SIGKILL only when sending SIGTERM failed, a wait of  *)
(* one second, then the descriptors are closed and the status set           *)
tool_stop_posix(tool, heeds) ==
    IF tool.status # TOOL_RUNNING
    THEN [tool |-> tool, result |-> FW_OK, discarded |-> <<>>]
    ELSE LET graceful == platform_kill_process_posix(tool.process, FALSE, heeds)
             killed == IF graceful.result # FW_OK
                       THEN platform_kill_process_posix(graceful.process, TRUE, heeds)
                       ELSE graceful
             waited == platform_wait_process_posix(killed.process)
         IN [tool |-> [tool EXCEPT !.pipes = "closed",
                                   !.status = TOOL_STOPPED,
                                   !.process = waited.process],
             result |-> FW_OK, discarded |-> <<>>]

(* tool_restart: stop, sleep, start; restart_count is left alone *)
tool_restart_posix(tool, heeds) ==
    LET stopped == tool_stop_posix(tool, heeds)
        started == tool_start(stopped.tool)
    IN [tool |-> started.tool, result |-> started.result,
        discarded |-> stopped.discarded, spawned |-> started.spawned]

(* tool_is_running: a tool found dead is marked crashed *)
tool_is_running_posix(tool) ==
    IF tool.status # TOOL_RUNNING
    THEN [tool |-> tool, result |-> FALSE]
    ELSE IF ~platform_is_process_running_posix(tool.process)
    THEN [tool |-> [tool EXCEPT !.status = TOOL_CRASHED], result |-> FALSE]
    ELSE [tool |-> tool, result |-> TRUE]

(* One tool's turn in tool_check_health *)
CheckToolCall_posix(tool) ==
    IF tool.status = TOOL_RUNNING /\ ~platform_is_process_running_posix(tool.process)
    THEN LET crashed == [tool EXCEPT !.status = TOOL_CRASHED,
                                     !.pipes = "closed"]
         IN IF crashed.restart_on_crash /\ crashed.restart_count < crashed.max_restarts
            THEN LET started == tool_start([crashed EXCEPT
                                   !.restart_count = crashed.restart_count + 1])
                 IN [tool |-> started.tool, spawned |-> started.spawned]
            ELSE [tool |-> crashed, spawned |-> FALSE]
    ELSE [tool |-> tool, spawned |-> FALSE]

-----------------------------------------------------------------------------
(* The same draft of tool.c (the one with the PLATFORM_WINDOWS branches)    *)
(* compiled against the Windows platform layer: GetExitCodeProcess tells a  *)
(* child that has exited from one that runs, TerminateProcess ends a child  *)
(* whether or not it would heed a request                                   *)

(* tool_stop: the child is terminated, the descriptors are closed *)
tool_stop_portable(tool) ==
    IF tool.status # TOOL_RUNNING
    THEN [tool |-> tool, result |-> FW_OK, discarded |-> <<>>]
    ELSE [tool |-> [tool EXCEPT !.pipes = "closed",
                                !.status = TOOL_STOPPED,
                                !.process = IF tool.process = "alive" THEN "none"
                                            ELSE tool.process],
          result |-> FW_OK, discarded |-> <<>>]

(* tool_restart: stop, sleep, start; restart_count is left alone *)
tool_restart_portable(tool) ==
    LET stopped == tool_stop_portable(tool)
        started == tool_start(stopped.tool)
    IN [tool |-> started.tool, result |-> started.result,
        discarded |-> stopped.discarded, spawned |-> started.spawned]

(* tool_is_running: a tool found dead is marked crashed, and that is all *)
tool_is_running_portable(tool) ==
    IF tool.status # TOOL_RUNNING
    THEN [tool |-> tool, result |-> FALSE]
    ELSE IF ~platform_is_process_running(tool.process)
    THEN [tool |-> [tool EXCEPT !.status = TOOL_CRASHED], result |-> FALSE]
    ELSE [tool |-> tool, result |-> TRUE]

(* One tool's turn in tool_check_health: only a tool that is Running is     *)
(* looked at                                                                *)
CheckToolCall_portable(tool) ==
    IF tool.status = TOOL_RUNNING /\ ~platform_is_process_running(tool.process)
    THEN LET crashed == [tool EXCEPT !.status = TOOL_CRASHED,
                                     !.pipes = "closed"]
         IN IF crashed.restart_on_crash /\ crashed.restart_count < crashed.max_restarts
            THEN LET started == tool_start([crashed EXCEPT
                                   !.restart_count = crashed.restart_count + 1])
                 IN [tool |-> started.tool, spawned |-> started.spawned]
            ELSE [tool |-> crashed, spawned |-> FALSE]
    ELSE [tool |-> tool, spawned |-> FALSE]

-----------------------------------------------------------------------------
(* event.c: the fan-out *)

RECURSIVE TrimLead(_)
(* Skip leading quotes and blanks: s advances past each ', " and blank *)
TrimLead(s) ==
    IF s # <<>> /\ Head(s) \in {"'", "\"", " "}
    THEN TrimLead(Tail(s))
    ELSE s

RECURSIVE TrimTrail(_)
(* Cut trailing quotes, blanks, newlines and CRs while end > s *)
TrimTrail(s) ==
    IF Len(s) > 1 /\ s[Len(s)] \in {"'", "\"", " ", "\n", "\r"}
    THEN TrimTrail(SubSeq(s, 1, Len(s) - 1))
    ELSE s

TrimSubscription(sub) == TrimTrail(TrimLead(sub))

(* Faulty variant of the subscription loop: "*" is compared like any pattern *)
is_subscribed_NoWildcard(tool, type) ==
    \E i \in 1..Len(tool.subscriptions) :
        TrimSubscription(tool.subscriptions[i]) = type

(* The subscription loop: the first pattern that is "*" or the type decides *)
is_subscribed(tool, type) ==
    \E i \in 1..Len(tool.subscriptions) :
        LET s == TrimSubscription(tool.subscriptions[i])
        IN s = <<"*">> \/ s = type

(* The body of the tool loop for tool i (1-based) and one event.  st carries *)
(* the registry and the bookkeeping.                                         *)
(* Faulty variant of QueueForTool: the on-demand start leaves is_starting unset *)
QueueForTool_Unmarked(tool, event) ==
    LET r == tool_queue_add(tool.inbox, EventMsg(event))
        queued == [tool EXCEPT !.inbox = r.queue]
    IN IF /\ r.result = FW_OK
          /\ queued.is_on_demand
          /\ queued.status = TOOL_STOPPED
          /\ ~queued.is_starting
       THEN [tool |-> tool_start(queued).tool,
             result |-> r.result, spawned |-> tool_start(queued).spawned]
       ELSE [tool |-> queued, result |-> r.result, spawned |-> FALSE]

(* What event_process_queue does for a subscribed tool: the line is added  *)
(* to the inbox and, when that succeeded, an on-demand tool that is        *)
(* stopped and not yet starting is started and flagged                     *)
QueueForTool(tool, event) ==
    LET r == tool_queue_add(tool.inbox, EventMsg(event))
        queued == [tool EXCEPT !.inbox = r.queue]
    IN IF /\ r.result = FW_OK
          /\ queued.is_on_demand
          /\ queued.status = TOOL_STOPPED
          /\ ~queued.is_starting
       THEN [tool |-> [tool_start(queued).tool EXCEPT !.is_starting = TRUE],
             result |-> r.result, spawned |-> tool_start(queued).spawned]
       ELSE [tool |-> queued, result |-> r.result, spawned |-> FALSE]

(* Faulty variant of DeliverToTool: the line is queued once for every      *)
(* pattern that matches, the subscription loop not stopping at the first   *)
DeliverToTool_PerPattern(st, i, event) ==
    LET once(s) ==
            LET tool == s.registry[i]
                full == tool_queue_is_full(tool.inbox)
            IN [s EXCEPT
                  !.registry[i] = QueueForTool(tool, event).tool,
                  !.matched[i] = s.matched[i] + 1,
                  !.refused[i] = s.refused[i] +
                      (IF full /\ tool.inbox.policy = QUEUE_POLICY_BLOCK THEN 1 ELSE 0),
                  !.gone[i] = s.gone[i] \o
                      (IF full /\ tool.inbox.policy = QUEUE_POLICY_DROP_OLDEST
                       THEN <<tool_queue_peek(tool.inbox)>> ELSE <<>>)]
        hits == {k \in 1..Len(st.registry[i].subscriptions) :
                    LET p == TrimSubscription(st.registry[i].subscriptions[k])
                    IN p = <<"*">> \/ p = event.type}
    IN IF hits = {} THEN st
       ELSE IF Cardinality(hits) = 1 THEN once(st)
       ELSE once(once(st))

DeliverToTool(st, i, event) ==
    LET tool == st.registry[i]
    IN IF ~is_subscribed(tool, event.type)
       THEN st
       ELSE LET full == tool_queue_is_full(tool.inbox)
                after == QueueForTool(tool, event).tool
            IN [st EXCEPT
                  !.registry[i] = after,
                  !.matched[i] = st.matched[i] + 1,
                  !.refused[i] = st.refused[i] +
                      (IF full /\ tool.inbox.policy = QUEUE_POLICY_BLOCK THEN 1 ELSE 0),
                  !.gone[i] = st.gone[i] \o
                      (IF full /\ tool.inbox.policy = QUEUE_POLICY_DROP_OLDEST
                       THEN <<tool_queue_peek(tool.inbox)>> ELSE <<>>)]

RECURSIVE DeliverEvent(_, _, _)
(* `next` and `rest` below name the state after one pass of a loop body *)
(* tool = tool_get_first(); while (tool != NULL) { ...; tool = tool_get_next(); } *)
DeliverEvent(st, i, event) ==
    IF i > Len(st.registry)
    THEN st
    ELSE CHOOSE done \in { DeliverEvent(next, i + 1, event) :
                               next \in {DeliverToTool(st, i, event)} } : TRUE

RECURSIVE ProcessBus_NewestFirst(_, _)
(* Faulty variant of the bus loop: the newest event is delivered first *)
ProcessBus_NewestFirst(st, b) ==
    IF b.count = 0
    THEN [st |-> st, bus |-> b]
    ELSE CHOOSE done \in
             { ProcessBus_NewestFirst(next, rest) :
                   next \in {DeliverEvent(st, 1,
                                 b.queue[(b.head + b.count - 1) % MAX_EVENTS_QUEUE])},
                   rest \in {[b EXCEPT
                                !.queue[(b.head + b.count - 1) % MAX_EVENTS_QUEUE] = NoEvent,
                                !.tail = (b.head + b.count - 1) % MAX_EVENTS_QUEUE,
                                !.count = b.count - 1]} } : TRUE

RECURSIVE ProcessBus(_, _)
(* while (bus.count > 0) { deliver bus.queue[bus.head]; free it; advance head } *)
ProcessBus(st, b) ==
    IF b.count = 0
    THEN [st |-> st, bus |-> b]
    ELSE CHOOSE done \in
             { ProcessBus(next, rest) :
                   next \in {DeliverEvent(st, 1, b.queue[b.head])},
                   rest \in {[b EXCEPT !.queue[b.head] = NoEvent,
                                       !.head = (b.head + 1) % MAX_EVENTS_QUEUE,
                                       !.count = b.count - 1]} } : TRUE

-----------------------------------------------------------------------------
(* Inputs of the model *)

(* Event types that are published; the second is the literal type "*" *)
Types == {<<"X">>, <<"*">>}

(* subscribe_to values as they reach tool_subscribe *)
SubscriptionChoices ==
    { <<>>,
      << <<"*">> >>,
      << <<"Y">>, <<"X", " ">> >>,
      << <<"\"", "X">> >>,
      << <<"'", "*", "'">>, <<"X">> >> }

(* What the configuration says of one tool.  command_ok tells whether the   *)
(* command line names a program that platform_spawn_process can start.      *)
ToolConfig(subs, policy, size, on_demand, roc, max_restarts, autostart, command_ok) ==
    [subscriptions |-> subs, queue_policy |-> policy, max_queue_size |-> size,
     is_on_demand |-> on_demand, restart_on_crash |-> roc, max_restarts |-> max_restarts,
     autostart |-> autostart, command_ok |-> command_ok]

(* Tool A: an inbox of one line, autostarted, restarted once on a crash *)
ConfigA(subs, policy, command_ok) ==
    ToolConfig(subs, policy, 1, FALSE, TRUE, 1, TRUE, command_ok)

(* Tool B: an inbox of two lines, subscribed to every type, not autostarted *)
ConfigB(policy, on_demand, command_ok) ==
    ToolConfig(<< <<"*">> >>, policy, 2, on_demand, on_demand, 0, FALSE, command_ok)

(* The configurations explored: every subscription list, every policy, B   *)
(* on-demand or not, and a command that cannot be started                  *)
Configs ==
    { <<ConfigA(subs, QUEUE_POLICY_DROP_OLDEST, TRUE),
        ConfigB(QUEUE_POLICY_DROP_OLDEST, TRUE, TRUE)>> : subs \in SubscriptionChoices }
    \cup
    { <<ConfigA(<< <<"*">> >>, policy, TRUE), ConfigB(policy, TRUE, TRUE)>> :
        policy \in QueuePolicy }
    \cup
    { <<ConfigA(<< <<"*">> >>, QUEUE_POLICY_DROP_OLDEST, TRUE),
        ConfigB(QUEUE_POLICY_DROP_OLDEST, FALSE, TRUE)>> }
    \cup
    { <<ConfigA(<< <<"*">> >>, QUEUE_POLICY_DROP_NEWEST, ok[1]),
        ConfigB(QUEUE_POLICY_BLOCK, TRUE, ok[2])>> :
        ok \in {<<FALSE, TRUE>>, <<TRUE, FALSE>>} }

(* The (type, sender) pairs event_publish is called with *)
PublishCalls ==
    {<<type, <<"A">>>> : type \in Types} \cup {<<<<"X">>, <<"B">>>>}

Tools == 1..2

-----------------------------------------------------------------------------
(* The kernel: framework_init, then framework_run *)

(* The n-th line pushed by the harness: M|producer|n *)
Line(n) == EventMsg(Event(<<"M">>, <<"producer">>, <<ToString(n)>>))

Call(op, arg, result, before) ==
    [op |-> op, arg |-> arg, result |-> result, before |-> before]

(* The lifecycle harness at rest: no tool under test *)
LifeIdle ==
    /\ build = "windows"
    /\ life = NULL
    /\ heeds_term = TRUE
    /\ spawns = 0
    /\ episode = 0
    /\ lastop = NULL

(* The parse harness at rest *)
ParseIdle ==
    /\ formatted = NoEvent
    /\ parsed = NULL
    /\ stdout_line = <<>>

(* No list command has been asked for *)
ListIdle ==
    /\ list_tool = -2
    /\ listed = <<>>

(* Nothing written by a child, nothing in framework_run's line_buffer *)
DrainIdle ==
    /\ pipe = <<<<>>, <<>>>>
    /\ line_buffer = <<>>
    /\ line_from = {}
    /\ line_done = NULL
    /\ writes = 0

(* No command file and no response file *)
FileIdle ==
    /\ command_file = NULL
    /\ response_file = NULL
    /\ executed = <<>>
    /\ written = 0

(* The other harnesses at rest *)
HarnessIdle ==
    /\ ParseIdle
    /\ ListIdle
    /\ DrainIdle
    /\ FileIdle

QueueIdle ==
    /\ queue = tool_queue_init(1, QUEUE_POLICY_DROP_OLDEST)
    /\ calls = 0
    /\ last = Call("init", NULL, FW_OK, tool_queue_init(1, QUEUE_POLICY_DROP_OLDEST))
    /\ ops = {}

PublishCall(type, sender, result) ==
    [type |-> type, sender |-> sender, result |-> result]

(* tool_register, tool_subscribe and, when configured, tool_start *)
ConfiguredTool(name, cfg) ==
    IF cfg.autostart
    THEN tool_start(ToolRecord(name, cfg)).tool
    ELSE ToolRecord(name, cfg)

(* framework_init: the bus is empty, the configured tools are registered *)
KernelInit(cfgA, cfgB) ==
    /\ registry = <<ConfiguredTool("A", cfgA), ConfiguredTool("B", cfgB)>>
    /\ current_iterator = 0
    /\ bus = event_bus_init
    /\ pc = "command"
    /\ drain_tool = -1
    /\ published = 0
    /\ commands = 0
    /\ last_publish = PublishCall(NullPtr, NullPtr, FW_ERROR_INVALID_ARG)
    /\ matched = [i \in Tools |-> 0]
    /\ refused = [i \in Tools |-> 0]
    /\ cleared = [i \in Tools |-> 0]
    /\ gone = [i \in Tools |-> <<>>]
    /\ g_running = TRUE

Init ==
    /\ QueueIdle
    /\ HarnessIdle
    /\ LifeIdle
    /\ \E cfg \in Configs : KernelInit(cfg[1], cfg[2])

(* The data of the n-th event published: its serial *)
Serial(n) == <<ToString(n)>>

(* A verb of the command file applied to tool i: start, stop or restart *)
ControlVerb(verb, i) ==
    LET tool == registry[i]
        r == CASE verb = "start" ->
                    [tool |-> tool_start(tool).tool, discarded |-> <<>>]
               [] verb = "stop" ->
                    [tool |-> tool_stop(tool).tool, discarded |-> tool_stop(tool).discarded]
               [] verb = "restart" ->
                    [tool |-> tool_restart(tool).tool,
                     discarded |-> tool_restart(tool).discarded]
    IN /\ registry' = [registry EXCEPT ![i] = r.tool]
       /\ cleared' = [cleared EXCEPT ![i] = cleared[i] + Len(r.discarded)]
       /\ gone' = [gone EXCEPT ![i] = gone[i] \o r.discarded]

(* while (g_running): process_command_file: no command file, or one verb *)
ProcessCommandFile ==
    /\ UNCHANGED <<hvars, qvars, lvars, g_running>>
    /\ pc = "command"
    /\ g_running
    /\ pc' = "fanout"
    /\ \/ UNCHANGED <<registry, commands, cleared, gone>>
       \/ /\ commands < MaxCommands
          /\ commands' = commands + 1
          /\ \E verb \in {"start", "stop", "restart"}, i \in Tools :
                ControlVerb(verb, i)
    /\ UNCHANGED <<current_iterator, bus, drain_tool, published, last_publish,
                   matched, refused>>

(* event_publish called through the in-process binding, between iterations *)
EventPublishCall ==
    /\ UNCHANGED <<hvars, qvars, lvars, g_running>>
    /\ pc = "command"
    /\ published < MaxPublish
    /\ \E call \in PublishCalls :
          LET type == call[1]
              sender == call[2]
          IN
          LET r == event_publish(bus, type, sender, Serial(published + 1))
          IN /\ bus' = r.bus
             /\ last_publish' = PublishCall(type, sender, r.result)
    /\ published' = published + 1
    /\ UNCHANGED <<registry, current_iterator, pc, drain_tool, commands, matched,
                   refused, cleared, gone>>

(* event_process_queue(); then framework_run's tool = tool_get_first() *)
EventProcessQueue ==
    /\ UNCHANGED <<hvars, qvars, lvars, g_running>>
    /\ pc = "fanout"
    /\ \E r \in {ProcessBus([registry |-> registry, matched |-> matched,
                             refused |-> refused, gone |-> gone], bus)} :
          /\ registry' = r.st.registry
          /\ matched' = r.st.matched
          /\ refused' = r.st.refused
          /\ gone' = r.st.gone
          /\ bus' = r.bus
    /\ current_iterator' = 0
    /\ drain_tool' = IF Len(registry) > 0 THEN 0 ELSE -1
    /\ pc' = IF Len(registry) > 0 THEN "drain" ELSE "health"
    /\ UNCHANGED <<published, commands, last_publish, cleared>>

(* One pass of the drain loop body: what a running tool wrote is read and  *)
(* logged, nothing more; then tool = tool_get_next().                      *)
DrainTool ==
    /\ UNCHANGED <<hvars, qvars, lvars, g_running>>
    /\ pc = "drain"
    /\ current_iterator' = current_iterator + 1
    /\ drain_tool' = IF current_iterator + 1 < Len(registry)
                     THEN current_iterator + 1 ELSE -1
    /\ pc' = IF current_iterator + 1 < Len(registry) THEN "drain" ELSE "health"
    /\ UNCHANGED <<registry, bus, published, commands, last_publish, matched,
                   refused, cleared, gone>>

(* tool_check_health(); platform_sleep_ms(100) *)
CheckHealth ==
    /\ UNCHANGED <<hvars, qvars, lvars, g_running>>
    /\ pc = "health"
    /\ registry' = tool_check_health(registry)
    /\ pc' = "command"
    /\ UNCHANGED <<current_iterator, bus, drain_tool, published, commands, last_publish,
                   matched, refused, cleared, gone>>

(* The child of a running tool exits; the kernel notices at its next health *)
(* check, so the exit is taken just before it                              *)
ChildExit ==
    /\ UNCHANGED <<hvars, qvars, lvars, g_running>>
    /\ pc = "health"
    /\ \E i \in Tools :
          /\ registry[i].status = TOOL_RUNNING
          /\ registry[i].process = "alive"
          /\ registry' = [registry EXCEPT ![i].process = "exited"]
    /\ UNCHANGED <<current_iterator, bus, pc, drain_tool, published, commands,
                   last_publish, matched, refused, cleared, gone>>

LoopStep == ProcessCommandFile \/ EventProcessQueue \/ DrainTool \/ CheckHealth

Next ==
    \/ ProcessCommandFile
    \/ EventPublishCall
    \/ EventProcessQueue
    \/ DrainTool
    \/ CheckHealth
    \/ ChildExit

Spec == Init /\ [][Next]_vars

-----------------------------------------------------------------------------
(* The queue harness: one ToolQueue driven through its interface *)

(* The kernel before any tool is registered: tool_registry_init, event_bus_init *)
KernelIdle ==
    /\ registry = <<>>
    /\ current_iterator = 0
    /\ bus = event_bus_init
    /\ pc = "command"
    /\ drain_tool = -1
    /\ published = 0
    /\ commands = 0
    /\ last_publish = PublishCall(NullPtr, NullPtr, FW_ERROR_INVALID_ARG)
    /\ matched = [i \in Tools |-> 0]
    /\ refused = [i \in Tools |-> 0]
    /\ cleared = [i \in Tools |-> 0]
    /\ gone = [i \in Tools |-> <<>>]
    /\ g_running = TRUE

QInit ==
    /\ KernelIdle
    /\ HarnessIdle
    /\ LifeIdle
    /\ \E capacity \in 1..MaxCapacity, policy \in QueuePolicy :
          queue = tool_queue_init(capacity, policy)
    /\ calls = 0
    /\ last = Call("init", NULL, FW_OK, tool_queue_init(1, QUEUE_POLICY_DROP_OLDEST))
    /\ ops = {}

QueueAdd ==
    /\ UNCHANGED <<hvars, kvars, lvars>>
    /\ calls < MaxPush
    /\ LET r == tool_queue_add(queue, Line(calls + 1))
       IN /\ queue' = r.queue
          /\ last' = Call("add", Line(calls + 1), r.result, queue)
    /\ calls' = calls + 1
    /\ ops' = ops \cup {"add"}

QueueRemove ==
    /\ UNCHANGED <<hvars, kvars, lvars>>
    /\ queue' = tool_queue_remove(queue)
    /\ last' = Call("remove", NULL, FW_OK, queue)
    /\ ops' = ops \cup {"remove"}
    /\ UNCHANGED calls

QueueClear ==
    /\ UNCHANGED <<hvars, kvars, lvars>>
    /\ queue' = tool_queue_clear(queue)
    /\ last' = Call("clear", NULL, FW_OK, queue)
    /\ ops' = ops \cup {"clear"}
    /\ UNCHANGED calls

QNext == QueueAdd \/ QueueRemove \/ QueueClear

QueueSpec == QInit /\ [][QNext]_vars


-----------------------------------------------------------------------------
(* Claims about the inbox ring buffer, checked under QueueSpec *)

Min(a, b) == IF a < b THEN a ELSE b
Max(a, b) == IF a > b THEN a ELSE b

(* The last call was tool_queue_add on a full queue of the given policy *)
FullAdd(policy) ==
    /\ last.op = "add"
    /\ last.before.policy = policy
    /\ last.before.count >= last.before.capacity

(* C4: a push on a full DropOldest inbox evicts exactly the oldest line,      *)
(* adds 1 to dropped, appends the new line at the back, leaves count equal to *)
(* capacity and returns FW_OK.                                                *)
C4_DropOldestFullPush ==
    FullAdd(QUEUE_POLICY_DROP_OLDEST) =>
        /\ last.result = FW_OK
        /\ QueueLines(queue) = Append(Tail(QueueLines(last.before)), last.arg)
        /\ queue.dropped_count = last.before.dropped_count + 1
        /\ queue.delivered_count = last.before.delivered_count
        /\ queue.count = queue.capacity

C4_Witness ==
    /\ FullAdd(QUEUE_POLICY_DROP_OLDEST)
    /\ queue.capacity >= 2
    /\ "remove" \in ops
    /\ last.result = FW_OK
    /\ queue.dropped_count >= 2

(* C5 as claimed: a push on a full DropNewest inbox leaves the queued lines   *)
(* unchanged, adds 1 to dropped, and returns an outcome distinct both from Ok *)
(* and from the outcome a full Block inbox returns.                           *)
BlockFullResult ==
    tool_queue_add([last.before EXCEPT !.policy = QUEUE_POLICY_BLOCK], last.arg).result

C5_Original ==
    FullAdd(QUEUE_POLICY_DROP_NEWEST) =>
        /\ QueueLines(queue) = QueueLines(last.before)
        /\ queue.dropped_count = last.before.dropped_count + 1
        /\ last.result # FW_OK
        /\ last.result # BlockFullResult

(* C5 as amended: a push on a full DropNewest inbox leaves the queued lines   *)
(* and their order unchanged, adds exactly 1 to dropped, and returns          *)
(* FW_ERROR_QUEUE_FULL: distinct from FW_OK, but the same code a full Block   *)
(* inbox returns.                                                             *)
C5_DropNewestFullPush ==
    FullAdd(QUEUE_POLICY_DROP_NEWEST) =>
        /\ QueueLines(queue) = QueueLines(last.before)
        /\ queue.count = last.before.count
        /\ queue.dropped_count = last.before.dropped_count + 1
        /\ queue.delivered_count = last.before.delivered_count
        /\ last.result = FW_ERROR_QUEUE_FULL
        /\ last.result # FW_OK
        /\ last.result = BlockFullResult

C5_Witness ==
    /\ FullAdd(QUEUE_POLICY_DROP_NEWEST)
    /\ queue.capacity >= 2
    /\ queue.dropped_count >= 2
    /\ last.result = FW_ERROR_QUEUE_FULL

(* C6: a push on a full Block inbox returns FW_ERROR_QUEUE_FULL and changes   *)
(* nothing: the lines, count, dropped and delivered are all as before.        *)
C6_BlockFullPush ==
    FullAdd(QUEUE_POLICY_BLOCK) =>
        /\ last.result = FW_ERROR_QUEUE_FULL
        /\ queue = last.before

C6_Witness ==
    /\ FullAdd(QUEUE_POLICY_BLOCK)
    /\ queue.capacity >= 2
    /\ "remove" \in ops
    /\ queue.delivered_count >= 1
    /\ last.result = FW_ERROR_QUEUE_FULL

(* C7: after n pushes into a DropOldest inbox of capacity c with no pop or    *)
(* clear in between, the inbox holds exactly the last min(n, c) lines in      *)
(* the order pushed, and dropped = max(0, n - c).                             *)
C7_DropOldestKeepsLast ==
    (queue.policy = QUEUE_POLICY_DROP_OLDEST /\ ops \subseteq {"add"}) =>
        LET c == queue.capacity
            kept == Min(calls, c)
        IN /\ QueueLines(queue) = [i \in 1..kept |-> Line(calls - kept + i)]
           /\ queue.dropped_count = Max(0, calls - c)

(* capacity 3, lines 1..10 pushed: 8, 9, 10 are held and dropped = 7 *)
C7_Witness ==
    /\ queue.policy = QUEUE_POLICY_DROP_OLDEST
    /\ ops = {"add"}
    /\ queue.capacity = 3
    /\ calls = 10
    /\ QueueLines(queue) = <<Line(8), Line(9), Line(10)>>
    /\ queue.dropped_count = 7

(* C8: under DropOldest, after any sequence of add, remove and clear, the     *)
(* inbox's count is never negative and never exceeds its capacity.            *)
C8_CountWithinCapacity ==
    queue.policy = QUEUE_POLICY_DROP_OLDEST =>
        /\ queue.count >= 0
        /\ queue.count <= queue.capacity

C8_Witness ==
    /\ queue.policy = QUEUE_POLICY_DROP_OLDEST
    /\ ops = {"add", "remove", "clear"}
    /\ queue.dropped_count >= 1
    /\ queue.delivered_count >= 1
    /\ queue.count = queue.capacity
    /\ queue.capacity >= 2

-----------------------------------------------------------------------------
(* The kernel under a supervisor loop that keeps iterating: framework_run   *)
(* is a while (g_running) loop whose every step returns.                    *)

FairConfigs ==
    { <<ConfigA(<< <<"*">> >>, QUEUE_POLICY_DROP_OLDEST, TRUE),
        ConfigB(QUEUE_POLICY_DROP_OLDEST, TRUE, TRUE)>> }

FairInit ==
    /\ QueueIdle
    /\ HarnessIdle
    /\ LifeIdle
    /\ \E cfg \in FairConfigs : KernelInit(cfg[1], cfg[2])

FairSpec == FairInit /\ [][Next]_vars /\ WF_vars(LoopStep)

-----------------------------------------------------------------------------
(* Claims about the bus, the fan-out and the loop *)

(* A step of event_process_queue *)
FanoutStep == pc = "fanout" /\ pc' # "fanout"

(* The sender and the serial of an event line TYPE|sender|serial\n *)
SenderOf(line) == line[3]
SerialOf(line) == CHOOSE n \in 1..MaxPublish : Serial(n) = <<line[5]>>

(* Every line that is or was in the inbox of tool i, in the order of entry *)
History(i) == gone[i] \o QueueLines(registry[i].inbox)

(* C1: every line the fan-out pushes into the inbox of a Running tool is    *)
(* eventually written to the tool's stdin by the loop: the inbox of a       *)
(* Running tool whose child is alive does not stay non-empty forever.       *)
C1_InboxEventuallyFlushed ==
    \A i \in Tools :
        ~<>[](/\ registry[i].status = TOOL_RUNNING
              /\ registry[i].process = "alive"
              /\ registry[i].inbox.count > 0)

(* C2: in every inbox, under every policy, the lines of one sender that     *)
(* entered it lie in the order of publication, those that left it included. *)
C2_PerSenderOrder ==
    \A i \in Tools :
        \A a, b \in 1..Len(History(i)) :
            (a < b /\ SenderOf(History(i)[a]) = SenderOf(History(i)[b]))
                => SerialOf(History(i)[a]) < SerialOf(History(i)[b])

(* Lines of one sender have left the inbox and another of its lines came later *)
C2_Witness ==
    \E i \in Tools :
        /\ Len(gone[i]) >= 1
        /\ registry[i].inbox.count >= 1
        /\ \E a \in 1..Len(gone[i]), b \in (Len(gone[i]) + 1)..Len(History(i)) :
              SenderOf(History(i)[a]) = SenderOf(History(i)[b])
        /\ \E a, b \in 1..Len(History(i)) :
              SenderOf(History(i)[a]) # SenderOf(History(i)[b])

(* C3 as written: delivered + dropped = the events matched to the tool *)
C3_Original ==
    \A i \in Tools :
        tool_queue_delivered(registry[i].inbox) + tool_queue_dropped(registry[i].inbox)
            = matched[i]

(* C3: for every tool and policy, the events matched to the tool are those  *)
(* delivered, those dropped, those still queued, those a full Block inbox   *)
(* turned down and those tool_queue_clear discarded.                        *)
C3_CountersAccountForMatched ==
    \A i \in Tools :
        tool_queue_delivered(registry[i].inbox) + tool_queue_dropped(registry[i].inbox)
            + tool_queue_count(registry[i].inbox) + refused[i] + cleared[i]
            = matched[i]

(* An inbox that has dropped a line, was cleared by a stop and holds a line *)
C3_Witness ==
    \E i \in Tools :
        /\ tool_queue_dropped(registry[i].inbox) > 0
        /\ cleared[i] > 0
        /\ tool_queue_count(registry[i].inbox) > 0

(* The characters the match skips at the front and cuts at the back *)
LeadChars == {"'", "\"", " "}
TrailChars == {"'", "\"", " ", "\n", "\r"}

(* A pattern without its leading quotes and blanks and, the first character *)
(* left apart, without its trailing quotes, blanks, newlines and CRs        *)
Stripped(p) ==
    LET lead == CHOOSE n \in 0..Len(p) :
                    /\ \A k \in 1..n : p[k] \in LeadChars
                    /\ n < Len(p) => p[n + 1] \notin LeadChars
        s == SubSeq(p, lead + 1, Len(p))
        keep == CHOOSE m \in 0..Len(s) :
                    /\ m >= Min(1, Len(s))
                    /\ \A k \in (m + 1)..Len(s) : s[k] \in TrailChars
                    /\ m > 1 => s[m] \notin TrailChars
    IN SubSeq(s, 1, keep)

(* A pattern as the specification stores it: without surrounding blanks,    *)
(* then without a pair of matching quotes around it                         *)
StoredPattern(p) ==
    LET first == CHOOSE n \in 1..(Len(p) + 1) :
                    /\ \A k \in 1..(n - 1) : p[k] = " "
                    /\ n <= Len(p) => p[n] # " "
        final == CHOOSE m \in 0..Len(p) :
                    /\ \A k \in (m + 1)..Len(p) : p[k] = " "
                    /\ m >= 1 => p[m] # " "
        s == SubSeq(p, first, final)
    IN IF Len(s) >= 2 /\ s[1] = s[Len(s)] /\ s[1] \in {"'", "\""}
       THEN SubSeq(s, 2, Len(s) - 1)
       ELSE s

(* The events on the bus whose type the patterns select, oldest first;      *)
(* Normal(_) is how a pattern is read                                       *)
Selected(Normal(_), patterns, b) ==
    SelectSeq(BusEvents(b),
              LAMBDA e : \E k \in 1..Len(patterns) :
                             Normal(patterns[k]) = <<"*">> \/ Normal(patterns[k]) = e.type)

(* What one run of the fan-out does to tool i when it has to push `events`: *)
(* one tool_queue_add for each and for no other event; under DropOldest the *)
(* last of them ends at the tail of the inbox                               *)
PushedExactly(i, events) ==
    /\ matched'[i] = matched[i] + Len(events)
    /\ (events # <<>> /\ registry[i].inbox.policy = QUEUE_POLICY_DROP_OLDEST)
          => LET lines == QueueLines(registry'[i].inbox)
             IN lines # <<>> /\ lines[Len(lines)] = EventMsg(events[Len(events)])
    /\ events = <<>> => registry'[i].inbox = registry[i].inbox

(* C9 as written: an event is pushed into the inbox of T iff the patterns   *)
(* T has stored include "*" or the type of the event                        *)
C9_Original ==
    [][FanoutStep =>
          \A i \in Tools :
              PushedExactly(i, Selected(StoredPattern, registry[i].subscriptions, bus))]_vars

(* C9: an event is pushed into the inbox of T iff one of T's patterns,      *)
(* its leading quotes and blanks and its trailing quotes, blanks and line   *)
(* ends taken off, is "*" or the type of the event; "*" selects every type, *)
(* the literal type "*" too                                                 *)
C9_PushedIffSubscribed ==
    [][FanoutStep =>
          \A i \in Tools :
              PushedExactly(i, Selected(Stripped, registry[i].subscriptions, bus))]_vars

(* The fan-out has run on events of type "*" and of type X: tool B took a   *)
(* "*" event through its wildcard; tool A, whose one pattern is X behind an *)
(* opening quote, took an X event and not every event                       *)
C9_Witness ==
    /\ pc = "drain"
    /\ registry[1].subscriptions = << <<"\"", "X">> >>
    /\ matched[1] >= 1
    /\ matched[1] < matched[2]
    /\ \E k \in 1..Len(History(2)) : History(2)[k][1] = "*"
    /\ \E k \in 1..Len(History(1)) : History(1)[k][1] = "X"

(* C10: event_publish with a type and a sender on a bus that holds          *)
(* MAX_EVENTS_QUEUE events returns FW_ERROR_QUEUE_FULL and leaves the bus   *)
(* as it was; on any other bus it returns FW_OK and appends that one event  *)
(* at the tail.                                                             *)
C10_PublishFullOrAppend ==
    [][(/\ published' = published + 1
        /\ last_publish'.type # NullPtr
        /\ last_publish'.sender # NullPtr)
          => IF bus.count = MAX_EVENTS_QUEUE
             THEN /\ last_publish'.result = FW_ERROR_QUEUE_FULL
                  /\ bus' = bus
             ELSE /\ last_publish'.result = FW_OK
                  /\ bus'.head = bus.head
                  /\ bus'.count = bus.count + 1
                  /\ BusEvents(bus') =
                        Append(BusEvents(bus),
                               Event(last_publish'.type, last_publish'.sender,
                                     Serial(published')))]_vars

(* A publish with a type and a sender was refused by a full bus *)
C10_Witness ==
    /\ last_publish.result = FW_ERROR_QUEUE_FULL
    /\ last_publish.type # NullPtr
    /\ bus.count = MAX_EVENTS_QUEUE

-----------------------------------------------------------------------------
(* One tool driven through its lifecycle by the control verbs, the liveness  *)
(* query and the health sweep, under either build of tool.c                  *)

MaxRestarts == 2        \* max_restarts values 0..MaxRestarts are explored
MaxRestartCount == 3    \* the restart verb is applied while restart_count is below this
MaxDeliver == 2         \* lines are queued for the tool while dropped + count is below this

LifeConfigs ==
    { ToolConfig(<< <<"*">> >>, QUEUE_POLICY_DROP_OLDEST, 1, on_demand, roc, max, FALSE, ok) :
        on_demand \in BOOLEAN, roc \in BOOLEAN, max \in 0..MaxRestarts, ok \in BOOLEAN }

LifeCall(op, before, result, spawned) ==
    [op |-> op, before |-> before, result |-> result, spawned |-> spawned]

(* The event LifeDeliver queues for a tool whose inbox is `inbox`: its data *)
(* tells it from the lines queued before                                   *)
LifeEvent(inbox) ==
    Event(<<"X">>, <<"B">>,
          Serial(tool_queue_dropped(inbox) + tool_queue_count(inbox) + 1))

LifeInit ==
    /\ QueueIdle
    /\ HarnessIdle
    /\ KernelIdle
    /\ build \in {"windows", "posix", "portable"}
    /\ heeds_term \in BOOLEAN
    /\ \E cfg \in LifeConfigs : life = ToolRecord(<<"A">>, cfg)
    /\ spawns = 0
    /\ episode = 0
    /\ lastop = LifeCall("register", NULL, FW_OK, FALSE)

(* start verb: tool_start *)
LifeStart ==
    /\ life # NULL
    /\ \E r \in {tool_start(life)} :
         /\ life' = r.tool
         /\ spawns' = IF r.spawned THEN 1 ELSE spawns
         /\ episode' = IF r.spawned THEN 1 ELSE episode
         /\ lastop' = LifeCall("start", life, r.result, r.spawned)
    /\ UNCHANGED <<hvars, qvars, kvars, build, heeds_term>>

(* stop verb: tool_stop *)
LifeStop ==
    /\ life # NULL
    /\ \E r \in {CASE build = "windows" -> tool_stop(life)
                   [] build = "posix" -> tool_stop_posix(life, heeds_term)
                   [] build = "portable" -> tool_stop_portable(life)} :
         /\ life' = r.tool
         /\ lastop' = LifeCall("stop", life, r.result, FALSE)
    /\ UNCHANGED <<hvars, qvars, kvars, build, heeds_term, spawns, episode>>

(* restart verb: tool_restart *)
LifeRestart ==
    /\ life # NULL
    /\ life.restart_count < MaxRestartCount
    /\ \E r \in {CASE build = "windows" -> tool_restart(life)
                   [] build = "posix" -> tool_restart_posix(life, heeds_term)
                   [] build = "portable" -> tool_restart_portable(life)} :
         /\ life' = r.tool
         /\ spawns' = IF r.spawned THEN 1 ELSE spawns
         /\ episode' = IF r.spawned THEN 1 ELSE episode
         /\ lastop' = LifeCall("restart", life, r.result, r.spawned)
    /\ UNCHANGED <<hvars, qvars, kvars, build, heeds_term>>

(* tool_is_running *)
LifeIsRunning ==
    /\ life # NULL
    /\ \E r \in {CASE build = "windows" -> tool_is_running(life)
                   [] build = "posix" -> tool_is_running_posix(life)
                   [] build = "portable" -> tool_is_running_portable(life)} :
         /\ life' = r.tool
         /\ lastop' = LifeCall("is_running", life, IF r.result THEN 1 ELSE 0, FALSE)
    /\ UNCHANGED <<hvars, qvars, kvars, build, heeds_term, spawns, episode>>

(* tool_check_health, for the one tool *)
LifeCheckHealth ==
    /\ life # NULL
    /\ \E r \in {CASE build = "windows" -> CheckToolCall(life)
                   [] build = "posix" -> CheckToolCall_posix(life)
                   [] build = "portable" -> CheckToolCall_portable(life)} :
         /\ life' = r.tool
         /\ spawns' = IF r.spawned THEN spawns + 1 ELSE spawns
         /\ episode' = IF r.spawned THEN episode + 1 ELSE episode
         /\ lastop' = LifeCall("check_health", life, FW_OK, r.spawned)
    /\ UNCHANGED <<hvars, qvars, kvars, build, heeds_term>>

(* event_process_queue finds the tool subscribed to an event on the bus *)
LifeDeliver ==
    /\ life # NULL
    /\ tool_queue_dropped(life.inbox) + tool_queue_count(life.inbox) < MaxDeliver
    /\ is_subscribed(life, LifeEvent(life.inbox).type)
    /\ \E r \in {QueueForTool(life, LifeEvent(life.inbox))} :
         /\ life' = r.tool
         /\ spawns' = IF r.spawned THEN spawns + 1 ELSE spawns
         /\ episode' = IF r.spawned THEN 1 ELSE episode
         /\ lastop' = LifeCall("deliver", life, r.result, r.spawned)
    /\ UNCHANGED <<hvars, qvars, kvars, build, heeds_term>>

(* The child exits of its own accord *)
LifeChildExit ==
    /\ life # NULL
    /\ life.process = "alive"
    /\ life' = [life EXCEPT !.process = "exited"]
    /\ lastop' = LifeCall("exit", life, FW_OK, FALSE)
    /\ UNCHANGED <<hvars, qvars, kvars, build, heeds_term, spawns, episode>>

LifeNext ==
    \/ LifeStart
    \/ LifeStop
    \/ LifeRestart
    \/ LifeIsRunning
    \/ LifeCheckHealth
    \/ LifeDeliver
    \/ LifeChildExit

LifeSpec == LifeInit /\ [][LifeNext]_vars

-----------------------------------------------------------------------------
(* Shutdown: the shutdown verb, the loop running out, framework_shutdown *)

(* process_command_file reading the shutdown verb: g_running = false; the  *)
(* iteration under way goes on to its end                                  *)
ShutdownCommand ==
    /\ UNCHANGED <<hvars, qvars, lvars>>
    /\ pc = "command"
    /\ g_running
    /\ g_running' = FALSE
    /\ commands' = commands + 1
    /\ pc' = "fanout"
    /\ UNCHANGED <<registry, current_iterator, bus, drain_tool, published,
                   last_publish, matched, refused, cleared, gone>>

(* framework_shutdown, its loop: tool_stop for every tool found running,   *)
(* walking the registry with tool_get_first / tool_get_next                *)
StopAllTools ==
    /\ UNCHANGED <<hvars, qvars, lvars>>
    /\ pc = "command"
    /\ ~g_running
    /\ \E stopped \in {[i \in 1..Len(registry) |->
                          IF registry[i].status = TOOL_RUNNING
                          THEN tool_stop(registry[i])
                          ELSE [tool |-> registry[i], result |-> FW_OK,
                                discarded |-> <<>>]]} :
          /\ registry' = [i \in 1..Len(registry) |-> stopped[i].tool]
          /\ cleared' = [i \in Tools |-> cleared[i] + Len(stopped[i].discarded)]
          /\ gone' = [i \in Tools |-> gone[i] \o stopped[i].discarded]
    /\ current_iterator' = Len(registry)
    /\ pc' = "teardown"
    /\ UNCHANGED <<bus, drain_tool, published, commands, last_publish, matched,
                   refused, g_running>>

(* framework_shutdown, the rest: tool_registry_shutdown frees the records, *)
(* event_bus_shutdown frees the queued events                              *)
ShutdownSubsystems ==
    /\ UNCHANGED <<hvars, qvars, lvars>>
    /\ pc = "teardown"
    /\ registry' = <<>>
    /\ bus' = event_bus_init
    /\ pc' = "exited"
    /\ UNCHANGED <<current_iterator, drain_tool, published, commands, last_publish,
                   matched, refused, cleared, gone, g_running>>

ShutNext ==
    \/ ProcessCommandFile
    \/ EventPublishCall
    \/ EventProcessQueue
    \/ DrainTool
    \/ CheckHealth
    \/ ChildExit
    \/ ShutdownCommand
    \/ StopAllTools
    \/ ShutdownSubsystems

ShutSpec == FairInit /\ [][ShutNext]_vars

(* C16: once shutdown has been invoked the loop exits, and every tool that  *)
(* is Running when framework_shutdown takes over is stopped: its state is   *)
(* Stopped and its pipes are closed, and no tool is left Running.           *)
C16_ShutdownStopsAll ==
    [][(pc = "command" /\ pc' = "teardown")
        => \A i \in 1..Len(registry) :
              /\ registry'[i].status # TOOL_RUNNING
              /\ registry[i].status = TOOL_RUNNING
                    => (/\ registry'[i].status = TOOL_STOPPED
                        /\ registry'[i].pipes = "closed")]_vars

-----------------------------------------------------------------------------
(* The interactive console and the control socket: each runs on a thread of *)
(* its own and hands every line it reads to control_execute_command         *)

(* console_thread_func / handle_client_connection: a start, stop or restart *)
(* line is executed there and then, by control_start_tool, control_stop_tool *)
(* or control_restart_tool, wherever framework_run happens to be            *)
ConsoleVerb ==
    /\ UNCHANGED <<hvars, qvars, lvars, g_running>>
    /\ pc \in {"command", "fanout", "drain", "health"}
    /\ commands < MaxCommands
    /\ commands' = commands + 1
    /\ \E verb \in {"start", "stop", "restart"}, i \in Tools :
          ControlVerb(verb, i)
    /\ UNCHANGED <<current_iterator, bus, pc, drain_tool, published, last_publish,
                   matched, refused>>

ThreadNext ==
    \/ ProcessCommandFile
    \/ EventPublishCall
    \/ EventProcessQueue
    \/ DrainTool
    \/ CheckHealth
    \/ ChildExit
    \/ ConsoleVerb

ThreadSpec == FairInit /\ [][ThreadNext]_vars

(* C17: a control verb, whichever thread it was submitted from, is executed *)
(* only in the supervisor loop's control-poll step, never while the loop is *)
(* in its fan-out, its I/O drain or its health sweep.                       *)
C17_VerbsOnlyInControlPoll ==
    [][commands' # commands => pc = "command"]_vars

-----------------------------------------------------------------------------
(* The registry driven through tool_register and tool_unregister.  A name   *)
(* is a sequence of characters here, so that its length counts.             *)

MAX_TOOL_NAME == 3  \* size of Tool.name (64 in framework.h), scaled down
MAX_TOOLS == 3      \* size of registry.tools (100 in framework.h), scaled down
MAX_SUBSCRIPTIONS == 1  \* size of Tool.subscriptions (50 in framework.h), scaled down

Chars == {"a"}

(* The names handed to the registry: 1 to MAX_TOOL_NAME characters, or NULL *)
Names == UNION {[1..n -> Chars] : n \in 1..MAX_TOOL_NAME} \cup {NullPtr}

(* strncpy(tool->name, name, MAX_TOOL_NAME - 1) into a zeroed record *)
StoredName(name) == SubSeq(name, 1, Min(Len(name), MAX_TOOL_NAME - 1))

(* The fields tool_register gives a new record *)
RegisterDefaults ==
    ToolConfig(<<>>, QUEUE_POLICY_DROP_OLDEST, 100, FALSE, FALSE, 3, FALSE, TRUE)

(* tool_find: the index of the first record of that name, 0 for NULL *)
tool_find(tools, name) ==
    IF name = NullPtr \/ \A i \in 1..Len(tools) : tools[i].name # name
    THEN 0
    ELSE CHOOSE i \in 1..Len(tools) :
            /\ tools[i].name = name
            /\ \A j \in 1..(i - 1) : tools[j].name # name

(* Faulty variant of tool_register: a duplicate name is refused only after  *)
(* the record has been stored                                                *)
tool_register_DuplicateStored(tools, name, command) ==
    IF name = NullPtr \/ command = NullPtr
    THEN [tools |-> tools, result |-> FW_ERROR_INVALID_ARG]
    ELSE IF tool_find(tools, name) # 0
    THEN [tools |-> Append(tools, ToolRecord(StoredName(name), RegisterDefaults)),
          result |-> FW_ERROR_ALREADY_EXISTS]
    ELSE IF Len(tools) >= MAX_TOOLS
    THEN [tools |-> tools, result |-> FW_ERROR_GENERIC]
    ELSE [tools |-> Append(tools, ToolRecord(StoredName(name), RegisterDefaults)),
          result |-> FW_OK]

(* tool_register *)
tool_register(tools, name, command) ==
    IF name = NullPtr \/ command = NullPtr
    THEN [tools |-> tools, result |-> FW_ERROR_INVALID_ARG]
    ELSE IF tool_find(tools, name) # 0
    THEN [tools |-> tools, result |-> FW_ERROR_ALREADY_EXISTS]
    ELSE IF Len(tools) >= MAX_TOOLS
    THEN [tools |-> tools, result |-> FW_ERROR_GENERIC]
    ELSE [tools |-> Append(tools, ToolRecord(StoredName(name), RegisterDefaults)),
          result |-> FW_OK]

(* tool_unregister: the tool is stopped when running, its record freed and  *)
(* the records behind it shifted down                                       *)
tool_unregister(tools, name) ==
    LET i == tool_find(tools, name)
    IN IF i = 0
       THEN [tools |-> tools, result |-> FW_ERROR_NOT_FOUND]
       ELSE [tools |-> [j \in 1..(Len(tools) - 1) |->
                           IF j < i THEN tools[j] ELSE tools[j + 1]],
             result |-> FW_OK]

(* tool_subscribe: the event type is stored behind the ones the tool has;   *)
(* the types handed in are shorter than MAX_EVENT_TYPE                      *)
tool_subscribe(tools, name, event_type) ==
    LET i == tool_find(tools, name)
    IN IF i = 0
       THEN [tools |-> tools, result |-> FW_ERROR_NOT_FOUND]
       ELSE IF Len(tools[i].subscriptions) >= MAX_SUBSCRIPTIONS
       THEN [tools |-> tools, result |-> FW_ERROR_GENERIC]
       ELSE [tools |-> [tools EXCEPT ![i].subscriptions = Append(@, event_type)],
             result |-> FW_OK]

(* A registry call: its name, its argument, the code returned, the registry *)
(* before it, and the call made before it                                   *)
RegCall(op, name, result, before, prev) ==
    [op |-> op, name |-> name, result |-> result, before |-> before, prev |-> prev]

RegInit ==
    /\ QueueIdle
    /\ HarnessIdle
    /\ KernelIdle
    /\ build = "windows"
    /\ life = NULL
    /\ heeds_term = TRUE
    /\ spawns = 0
    /\ episode = 0
    /\ lastop = RegCall("init", NullPtr, FW_OK, <<>>, NULL)

ToolRegister ==
    /\ \E name \in Names :
          \E r \in {tool_register(registry, name, <<"echo">>)} :
             /\ registry' = r.tools
             /\ lastop' = RegCall("register", name, r.result, registry,
                                  [lastop EXCEPT !.prev = NULL])
    /\ UNCHANGED <<hvars, qvars, build, life, heeds_term, spawns, episode>>
    /\ UNCHANGED <<current_iterator, bus, pc, drain_tool, published, commands,
                   last_publish, matched, refused, cleared, gone, g_running>>

ToolUnregister ==
    /\ \E name \in Names :
          \E r \in {tool_unregister(registry, name)} :
             /\ registry' = r.tools
             /\ lastop' = RegCall("unregister", name, r.result, registry,
                                  [lastop EXCEPT !.prev = NULL])
    /\ UNCHANGED <<hvars, qvars, build, life, heeds_term, spawns, episode>>
    /\ UNCHANGED <<current_iterator, bus, pc, drain_tool, published, commands,
                   last_publish, matched, refused, cleared, gone, g_running>>

RegNext ==
    \/ ToolRegister
    \/ ToolUnregister

RegSpec == RegInit /\ [][RegNext]_vars

(* C20: for a name N that is not registered, tool_register(N, C) followed   *)
(* by tool_unregister(N) leaves tool_find(N) empty-handed and the registry  *)
(* count where it was before the registration.                              *)
C20_RegisterUnregister ==
    (/\ lastop.op = "unregister"
     /\ lastop.prev.op = "register"
     /\ lastop.prev.name = lastop.name
     /\ tool_find(lastop.prev.before, lastop.name) = 0)
    => (/\ tool_find(registry, lastop.name) = 0
        /\ Len(registry) = Len(lastop.prev.before))

-----------------------------------------------------------------------------
(* The registry and the bus called with arguments they turn down: NULL      *)
(* pointers, names that are not registered, names that are                  *)

(* A call: the function called and the code it returned *)
ErrCall(op, result) == [op |-> op, result |-> result]

ErrInit ==
    /\ QueueIdle
    /\ HarnessIdle
    /\ KernelIdle
    /\ build = "windows"
    /\ life = NULL
    /\ heeds_term = TRUE
    /\ spawns = 0
    /\ episode = 0
    /\ lastop = ErrCall("init", FW_OK)

(* tool_register, with a name or a command that may be NULL *)
ErrRegister ==
    /\ \E name \in Names, command \in {<<"echo">>, NullPtr} :
          \E r \in {tool_register(registry, name, command)} :
             /\ registry' = r.tools
             /\ lastop' = ErrCall("register", r.result)
    /\ UNCHANGED <<hvars, qvars, build, life, heeds_term, spawns, episode>>
    /\ UNCHANGED <<current_iterator, bus, pc, drain_tool, published, commands,
                   last_publish, matched, refused, cleared, gone, g_running>>

ErrUnregister ==
    /\ \E name \in Names :
          \E r \in {tool_unregister(registry, name)} :
             /\ registry' = r.tools
             /\ lastop' = ErrCall("unregister", r.result)
    /\ UNCHANGED <<hvars, qvars, build, life, heeds_term, spawns, episode>>
    /\ UNCHANGED <<current_iterator, bus, pc, drain_tool, published, commands,
                   last_publish, matched, refused, cleared, gone, g_running>>

ErrSubscribe ==
    /\ \E name \in Names :
          \E r \in {tool_subscribe(registry, name, <<"X">>)} :
             /\ registry' = r.tools
             /\ lastop' = ErrCall("subscribe", r.result)
    /\ UNCHANGED <<hvars, qvars, build, life, heeds_term, spawns, episode>>
    /\ UNCHANGED <<current_iterator, bus, pc, drain_tool, published, commands,
                   last_publish, matched, refused, cleared, gone, g_running>>

(* event_publish, with a type or a sender that may be NULL *)
ErrPublish ==
    /\ published < MaxPublish
    /\ \E type \in {<<"X">>, NullPtr}, sender \in {<<"A">>, NullPtr} :
          \E r \in {event_publish(bus, type, sender, Serial(published + 1))} :
             /\ bus' = r.bus
             /\ lastop' = ErrCall("publish", r.result)
    /\ published' = published + 1
    /\ UNCHANGED <<hvars, qvars, build, life, heeds_term, spawns, episode>>
    /\ UNCHANGED <<registry, current_iterator, pc, drain_tool, commands,
                   last_publish, matched, refused, cleared, gone, g_running>>

ErrNext ==
    \/ ErrRegister
    \/ ErrUnregister
    \/ ErrSubscribe
    \/ ErrPublish

ErrSpec == ErrInit /\ [][ErrNext]_vars

(* C21: a registry or bus call that returns InvalidArg, NotFound or         *)
(* AlreadyExists (tool_register with a NULL name or of a name that is      *)
(* registered, tool_unregister or tool_subscribe of a name that is not,    *)
(* event_publish with a NULL type or sender) leaves the registry, the bus  *)
(* and every inbox as they were.                                           *)
C21_ErrorsLeaveStateAlone ==
    [][lastop'.result \in {FW_ERROR_INVALID_ARG, FW_ERROR_NOT_FOUND,
                             FW_ERROR_ALREADY_EXISTS}
        => (registry' = registry /\ bus' = bus)]_vars

(* A duplicate has just been refused, with a subscription stored and an    *)
(* event on the bus                                                        *)
C21_Witness ==
    /\ lastop.op = "register"
    /\ lastop.result = FW_ERROR_ALREADY_EXISTS
    /\ \E i \in 1..Len(registry) : registry[i].subscriptions # <<>>
    /\ bus.count > 0

-----------------------------------------------------------------------------
(* Lifecycle claims *)

(* C11: at every quiescent moment (between lifecycle calls), a tool whose   *)
(* state is Stopped, Crashed or Error has all of its pipe endpoints closed. *)
C11_DownMeansPipesClosed ==
    life # NULL =>
        (life.status \in {TOOL_STOPPED, TOOL_CRASHED, TOOL_ERROR}
            => life.pipes = "closed")

(* C12 as stated: for a tool with restart_on_crash set, the spawn attempts  *)
(* made since the last start by a control verb (that start included)        *)
(* number at most max_restarts + 1.                                         *)
C12_Original ==
    (life # NULL /\ life.restart_on_crash) => spawns <= life.max_restarts + 1

(* C12: for a tool with restart_on_crash set, the spawn attempts made since *)
(* the last start that was not a crash restart (a start or restart verb, or *)
(* the on-demand start of the fan-out; that start included) number at most  *)
(* max_restarts + 1, however many times the tool has crashed.               *)
C12_SpawnsWithinBudget ==
    (life # NULL /\ life.restart_on_crash) => episode <= life.max_restarts + 1

(* The budget is used up: a sweep has just respawned the tool for the last  *)
(* time it may, after an earlier crash and respawn                          *)
C12_Witness ==
    /\ life # NULL
    /\ life.restart_on_crash
    /\ life.max_restarts = MaxRestarts
    /\ episode = life.max_restarts + 1
    /\ lastop.op = "check_health"
    /\ lastop.spawned

(* C13: when a health sweep finds a restart_on_crash tool dead and its      *)
(* restart_count has reached max_restarts, the tool is in state Error when  *)
(* the sweep returns (with max_restarts = 2 and a child that always exits:  *)
(* after the third spawn).                                                  *)
C13_ExhaustedBecomesError ==
    (/\ life # NULL
     /\ lastop.op = "check_health"
     /\ lastop.before.status = TOOL_RUNNING
     /\ lastop.before.process = "exited"
     /\ lastop.before.restart_on_crash
     /\ lastop.before.restart_count >= lastop.before.max_restarts)
    => life.status = TOOL_ERROR

(* C14: start on a Running tool returns success, spawns nothing and leaves *)
(* the tool record as it was; stop on a Stopped tool returns success and    *)
(* leaves the tool record as it was.                                        *)
C14_VerbsIdempotent ==
    life # NULL =>
        /\ (lastop.op = "start" /\ lastop.before.status = TOOL_RUNNING)
              => (lastop.result = FW_OK /\ ~lastop.spawned /\ life = lastop.before)
        /\ (lastop.op = "stop" /\ lastop.before.status = TOOL_STOPPED)
              => (lastop.result = FW_OK /\ life = lastop.before)

(* start has just been applied to a Running tool whose child is already gone *)
C14_Witness ==
    /\ life # NULL
    /\ lastop.op = "start"
    /\ lastop.before.status = TOOL_RUNNING
    /\ lastop.before.process = "exited"

(* C15: when stop is applied to a Running tool whose child does not exit on *)
(* the graceful terminate request, then on return from stop the child is no *)
(* longer alive, the state is Stopped and the pipe endpoints are closed.    *)
C15_StopKillsStubbornChild ==
    (/\ life # NULL
     /\ lastop.op = "stop"
     /\ lastop.before.status = TOOL_RUNNING
     /\ lastop.before.process = "alive"
     /\ ~heeds_term)
    => (/\ life.process # "alive"
        /\ life.status = TOOL_STOPPED
        /\ life.pipes = "closed")

(* C18: a Running tool whose child has exited, reaped or not, is found not  *)
(* alive by the next health sweep: when the sweep returns the tool has been *)
(* moved to Crashed, or has been respawned from there under the restart     *)
(* policy.                                                                  *)
C18_ExitedChildIsSwept ==
    (/\ life # NULL
     /\ lastop.op = "check_health"
     /\ lastop.before.status = TOOL_RUNNING
     /\ lastop.before.process = "exited")
    => \/ life.status = TOOL_CRASHED
       \/ life.restart_count = lastop.before.restart_count + 1

(* C19: when the fan-out queues a line for a tool that is on-demand,        *)
(* Stopped and not already starting, the tool is flagged as starting and    *)
(* one start is requested; if the tool comes up Running the line just       *)
(* queued is in its inbox.  A tool already flagged is not started again.    *)
C19_OnDemandStart ==
    (life # NULL /\ lastop.op = "deliver") =>
        /\ (/\ lastop.result = FW_OK
            /\ lastop.before.is_on_demand
            /\ lastop.before.status = TOOL_STOPPED
            /\ ~lastop.before.is_starting)
           => (/\ life.is_starting
               /\ lastop.spawned
               /\ episode = 1
               /\ life.status \in {TOOL_RUNNING, TOOL_ERROR}
               /\ life.status = TOOL_RUNNING
                     => (/\ tool_queue_count(life.inbox) > 0
                         /\ QueueLines(life.inbox)[tool_queue_count(life.inbox)]
                               = EventMsg(LifeEvent(lastop.before.inbox))))
        /\ lastop.before.is_starting => ~lastop.spawned

(* The fan-out has just brought up an on-demand tool that an operator had   *)
(* started and stopped before                                               *)
C19_Witness ==
    /\ life # NULL
    /\ lastop.op = "deliver"
    /\ lastop.before.is_on_demand
    /\ lastop.before.status = TOOL_STOPPED
    /\ ~lastop.before.is_starting
    /\ lastop.before.pipes = "open"
    /\ life.status = TOOL_RUNNING
    /\ tool_queue_count(life.inbox) = 1

-----------------------------------------------------------------------------
(* event_format and event_parse.  Text is a sequence of characters here,    *)
(* so that strtok and the strncpy limits act as they do in the code.        *)

MAX_EVENT_TYPE == 3     \* size of Event.type (64 in framework.h), scaled down
MAX_EVENT_DATA == 4     \* size of Event.data (4096 in framework.h), scaled down

(* The texts of at most n characters drawn from chars *)
TextUpTo(chars, n) == UNION {[1..k -> chars] : k \in 0..n}

(* strncpy(dst, s, n) into a zeroed array of n + 1 characters *)
Strncpy(s, n) == SubSeq(s, 1, Min(Len(s), n))

(* strtok on the text s, resumed at position p: the delimiters in front are *)
(* skipped; the token runs up to the next delimiter, which is overwritten,  *)
(* or to the end of s; there is no token when only delimiters are left.     *)
(* next: where the following call resumes                                   *)
strtok(s, p, delims) ==
    LET starts == {q \in p..Len(s) : s[q] \notin delims}
    IN IF starts = {}
       THEN [token |-> NullPtr, next |-> Len(s) + 1]
       ELSE LET q == CHOOSE q \in starts : \A r \in starts : q <= r
                ends == {e \in q..Len(s) : s[e] \in delims}
                e == IF ends = {} THEN Len(s) + 1
                     ELSE CHOOSE e \in ends : \A r \in ends : e <= r
            IN [token |-> SubSeq(s, q, e - 1),
                next |-> IF e > Len(s) THEN e ELSE e + 1]

(* event_format into a buffer that holds the whole line *)
event_format(event) == EventMsg(event)

(* event_parse: the Event filled in (zeroed first) and the code returned *)
event_parse(line) ==
    LET type == strtok(line, 1, {"|"})
        sender == strtok(line, type.next, {"|"})
        data == strtok(line, sender.next, {"\n"})
    IN IF type.token = NullPtr \/ sender.token = NullPtr
       THEN [event |-> NoEvent, result |-> FW_ERROR_PARSE_FAILED]
       ELSE [event |-> Event(Strncpy(type.token, MAX_EVENT_TYPE - 1),
                             Strncpy(sender.token, MAX_TOOL_NAME - 1),
                             IF data.token = NullPtr THEN <<>>
                             ELSE Strncpy(data.token, MAX_EVENT_DATA - 1)),
             result |-> FW_OK]

(* The Events formatted: every field may be empty, type and sender hold no  *)
(* '|', data holds no newline and may hold '|'                              *)
ParseEvents ==
    { Event(type, sender, data) :
        type \in TextUpTo({"t"}, MAX_EVENT_TYPE - 1),
        sender \in TextUpTo({"s"}, MAX_TOOL_NAME - 1),
        data \in TextUpTo({"d", "|"}, MAX_EVENT_DATA - 1) }

ParseInit ==
    /\ QueueIdle
    /\ KernelIdle
    /\ LifeIdle
    /\ ListIdle
    /\ DrainIdle
    /\ FileIdle
    /\ formatted \in ParseEvents
    /\ parsed = NULL
    /\ stdout_line = <<>>

(* event_format(&formatted, buffer, sizeof buffer); event_parse(buffer, &e) *)
ParseFormatted ==
    /\ parsed = NULL
    /\ parsed' = event_parse(event_format(formatted))
    /\ UNCHANGED <<formatted, stdout_line, ivars, dvars, fvars, qvars, kvars, lvars>>

ParseNext ==
    \/ ParseFormatted

ParseSpec == ParseInit /\ [][ParseNext]_vars

(* C23: for every Event E whose type and sender hold no '|' and whose data  *)
(* holds no newline (empty fields and data holding '|' included),          *)
(* event_parse applied to the line event_format writes for E succeeds and   *)
(* yields the type, sender and data of E.                                   *)
C23_ParseInvertsFormat ==
    parsed # NULL => (parsed.result = FW_OK /\ parsed.event = formatted)

-----------------------------------------------------------------------------
(* event_parse applied to the lines a tool may write *)

MaxLine == 6    \* lines of at most this many characters are parsed

(* The lines: any mix of a letter and the separator *)
RawLines == TextUpTo({"a", "|"}, MaxLine)

(* How many separators a line holds *)
Separators(text) == Cardinality({i \in 1..Len(text) : text[i] = "|"})

LineInit ==
    /\ QueueIdle
    /\ KernelIdle
    /\ LifeIdle
    /\ ListIdle
    /\ DrainIdle
    /\ FileIdle
    /\ formatted = NoEvent
    /\ parsed = NULL
    /\ stdout_line \in RawLines

(* event_parse(line, &event) *)
ParseLine ==
    /\ parsed = NULL
    /\ parsed' = event_parse(stdout_line)
    /\ UNCHANGED <<formatted, stdout_line, ivars, dvars, fvars, qvars, kvars, lvars>>

LineNext ==
    \/ ParseLine

LineSpec == LineInit /\ [][LineNext]_vars

(* C24: a line that holds fewer than two '|' separators is rejected by the  *)
(* parser: event_parse does not return success for it, so that no event is  *)
(* made of it.                                                              *)
C24_FewSeparatorsRejected ==
    (parsed # NULL /\ Separators(stdout_line) < 2) => parsed.result # FW_OK

-----------------------------------------------------------------------------
(* Two registered tools started and stopped while the platform now refuses, *)
(* now grants, the process or its pipes                                     *)

(* A call on tool i: the function, the code returned, the registry before *)
SpawnCall(op, i, result, before) ==
    [op |-> op, i |-> i, result |-> result, before |-> before]

SpawnInit ==
    /\ QueueIdle
    /\ HarnessIdle
    /\ KernelIdle
    /\ build = "windows"
    /\ life = NULL
    /\ heeds_term = TRUE
    /\ spawns = 0
    /\ episode = 0
    /\ lastop = SpawnCall("init", 0, FW_OK, <<>>)

(* framework_init registering the two tools of the configuration *)
SpawnRegister ==
    /\ registry = <<>>
    /\ registry' = <<ToolRecord("A", RegisterDefaults), ToolRecord("B", RegisterDefaults)>>
    /\ lastop' = SpawnCall("register", 0, FW_OK, registry)
    /\ UNCHANGED <<hvars, qvars, build, life, heeds_term, spawns, episode>>
    /\ UNCHANGED <<current_iterator, bus, pc, drain_tool, published, commands,
                   last_publish, matched, refused, cleared, gone, g_running>>

(* tool_start on one of the tools *)
SpawnStart ==
    /\ \E i \in 1..Len(registry) :
          \E r \in {tool_start(registry[i])} :
             /\ registry' = [registry EXCEPT ![i] = r.tool]
             /\ lastop' = SpawnCall("start", i, r.result, registry)
    /\ UNCHANGED <<hvars, qvars, build, life, heeds_term, spawns, episode>>
    /\ UNCHANGED <<current_iterator, bus, pc, drain_tool, published, commands,
                   last_publish, matched, refused, cleared, gone, g_running>>

(* tool_stop on one of the tools *)
SpawnStop ==
    /\ \E i \in 1..Len(registry) :
          \E r \in {tool_stop(registry[i])} :
             /\ registry' = [registry EXCEPT ![i] = r.tool]
             /\ lastop' = SpawnCall("stop", i, r.result, registry)
    /\ UNCHANGED <<hvars, qvars, build, life, heeds_term, spawns, episode>>
    /\ UNCHANGED <<current_iterator, bus, pc, drain_tool, published, commands,
                   last_publish, matched, refused, cleared, gone, g_running>>

(* What platform_spawn_process will do for a tool changes: the process can  *)
(* or cannot be created, its descriptors can or cannot be obtained          *)
SpawnPlatformChange ==
    /\ \E i \in 1..Len(registry), process_ok \in BOOLEAN, fds_ok \in BOOLEAN :
          registry' = [registry EXCEPT ![i].command_ok = process_ok,
                                       ![i].pipes_ok = fds_ok]
    /\ lastop' = SpawnCall("platform", 0, FW_OK, registry)
    /\ UNCHANGED <<hvars, qvars, build, life, heeds_term, spawns, episode>>
    /\ UNCHANGED <<current_iterator, bus, pc, drain_tool, published, commands,
                   last_publish, matched, refused, cleared, gone, g_running>>

SpawnNext ==
    \/ SpawnRegister
    \/ SpawnStart
    \/ SpawnStop
    \/ SpawnPlatformChange

SpawnSpec == SpawnInit /\ [][SpawnNext]_vars

-----------------------------------------------------------------------------
(* Restart policy claims *)

(* C28: with restart_on_crash set and max_restarts = 0 the crash restarts   *)
(* are unlimited: every health sweep that meets the tool Running with its   *)
(* child gone spawns it again.                                              *)
C28_ZeroMeansUnlimited ==
    (/\ life # NULL
     /\ lastop.op = "check_health"
     /\ lastop.before.status = TOOL_RUNNING
     /\ lastop.before.process = "exited"
     /\ lastop.before.restart_on_crash
     /\ lastop.before.max_restarts = 0)
    => lastop.spawned

(* The lifecycle with the supervisor loop running: framework_run calls      *)
(* tool_check_health in every iteration, so the sweep is never put off for  *)
(* ever                                                                     *)
LifeFairSpec == LifeInit /\ [][LifeNext]_vars /\ WF_vars(LifeCheckHealth)

(* C29: a tool that is Crashed with restart_on_crash set and restart_count  *)
(* below max_restarts, however it came to be Crashed, does not stay Crashed *)
(* for ever while the supervisor loop runs: a sweep counts a restart and    *)
(* requests a start for it.                                                 *)
C29_CrashedIsRestarted ==
    (/\ life # NULL
     /\ life.status = TOOL_CRASHED
     /\ life.restart_on_crash
     /\ life.restart_count < life.max_restarts)
    ~> (life.status # TOOL_CRASHED)

-----------------------------------------------------------------------------
(* A list command run on a control thread (console_thread_func or           *)
(* handle_client_connection calling control_execute_command) while          *)
(* framework_run goes round.  Its loop over the registry is taken one       *)
(* tool_get_first / tool_get_next call at a time; both threads use the one  *)
(* current_iterator of tool.c.                                              *)

(* Rows that fit the response buffer: the loop also ends when                *)
(* offset >= response_size - 100                                            *)
MaxListed == 3

(* "list": the header is written, then tool = tool_get_first() *)
ListFirst ==
    /\ UNCHANGED <<pvars, dvars, fvars, qvars, lvars, g_running>>
    /\ pc \in {"command", "fanout", "drain", "health"}
    /\ list_tool = -2
    /\ current_iterator' = 0
    /\ list_tool' = IF Len(registry) > 0 THEN 0 ELSE -1
    /\ listed' = <<>>
    /\ UNCHANGED <<registry, bus, pc, drain_tool, published, commands, last_publish,
                   matched, refused, cleared, gone>>

(* One pass of the while (tool) body: the row of `tool` is written, then    *)
(* tool = tool_get_next()                                                   *)
ListStep ==
    /\ UNCHANGED <<pvars, dvars, fvars, qvars, lvars, g_running>>
    /\ list_tool >= 0
    /\ listed' = Append(listed, registry[list_tool + 1].name)
    /\ current_iterator' = current_iterator + 1
    /\ list_tool' = IF /\ current_iterator + 1 < Len(registry)
                       /\ Len(listed) + 1 < MaxListed
                    THEN current_iterator + 1 ELSE -1
    /\ UNCHANGED <<registry, bus, pc, drain_tool, published, commands, last_publish,
                   matched, refused, cleared, gone>>

ListNext ==
    \/ ProcessCommandFile
    \/ EventPublishCall
    \/ EventProcessQueue
    \/ DrainTool
    \/ CheckHealth
    \/ ChildExit
    \/ ListFirst
    \/ ListStep

ListSpec == FairInit /\ [][ListNext]_vars

(* C22: when a list command has run to its end it has reported every        *)
(* registered tool exactly once, in registration order, so that the number  *)
(* of tools reported is the registry count.                                 *)
C22_ListVisitsEachOnce ==
    list_tool = -1 =>
        listed = [i \in 1..Len(registry) |-> registry[i].name]

-----------------------------------------------------------------------------
(* framework_run of the control-socket draft of main.c: what the tools     *)
(* write to stdout is put together into lines, a COMMAND line is handled   *)
(* by handle_console_command, any other line is published.                  *)

LINE_BUFFER_SIZE == 16  \* sizeof line_buffer (8192 in framework_run), scaled down
MaxWrites == 3          \* at most this many writes by the children in a run

COMMAND == <<"C", "O", "M", "M", "A", "N", "D">>

(* What the child of the tool called name hands to one write on its stdout: *)
(* the start of an event line, the rest of it, a whole event line, an event *)
(* line with no data, a whole COMMAND line asking for the list              *)
Chunks(name) ==
    { <<"X", "|", name>>,
      <<"|", "d", "\n">>,
      <<"X", "|", name, "|", "d", "\n">>,
      <<"X", "|", name, "|", "\n">>,
      COMMAND \o <<"|", name, "|", "l", "i", "s", "t", "\n">> }

(* The list branch of handle_console_command: tool_get_first, then one row  *)
(* and one tool_get_next per pass while (tool && offset < sizeof - 100).    *)
(* rows: the names reported; cursor: current_iterator afterwards            *)
ListWalk(tools) ==
    LET rows == Min(Len(tools), MaxListed)
    IN [rows |-> [k \in 1..rows |-> tools[k].name], cursor |-> rows]

(* handle_console_command(tool_name, command) for the commands that do not  *)
(* name a tool: list walks the registry, the others only write a response   *)
handle_console_command(st, tools, command) ==
    LET cmd == strtok(command, 1, {" "})
    IN IF cmd.token = <<"l", "i", "s", "t">>
       THEN [st EXCEPT !.current_iterator = ListWalk(tools).cursor,
                       !.listed = ListWalk(tools).rows,
                       !.list_tool = -1]
       ELSE st

(* buffer[i] == '\n': line_buffer is cut into type, sender and data; with   *)
(* all three there a COMMAND goes to handle_console_command and any other   *)
(* type to event_publish; line_pos = 0                                      *)
LineComplete(st, tools, i) ==
    LET text == st.line_buffer
        type == strtok(text, 1, {"|"})
        sender == strtok(text, type.next, {"|"})
        data == strtok(text, sender.next, {})
        whole == /\ type.token # NullPtr
                 /\ sender.token # NullPtr
                 /\ data.token # NullPtr
        acted == IF ~whole THEN st
                 ELSE IF type.token = COMMAND
                 THEN handle_console_command(st, tools, data.token)
                 ELSE [st EXCEPT !.bus = event_publish(st.bus, type.token, sender.token,
                                                       data.token).bus]
    IN [acted EXCEPT !.line_buffer = <<>>,
                     !.line_from = {},
                     !.line_done = [text |-> text, from |-> st.line_from \cup {i}]]

(* for (i = 0; i < bytes && line_pos < sizeof(line_buffer) - 1; i++): the   *)
(* bytes read from tool i are put into line_buffer one by one              *)
RECURSIVE AccumulateBytes(_, _, _, _)
AccumulateBytes(st, tools, bytes, i) ==
    IF bytes = <<>> \/ Len(st.line_buffer) >= LINE_BUFFER_SIZE - 1
    THEN st
    ELSE IF Head(bytes) = "\n"
    THEN AccumulateBytes(LineComplete(st, tools, i), tools, Tail(bytes), i)
    ELSE AccumulateBytes([st EXCEPT !.line_buffer = Append(@, Head(bytes)),
                                    !.line_from = @ \cup {i}],
                         tools, Tail(bytes), i)

(* Both tools are started by framework_init; A listens to every event *)
DrainConfigs ==
    { <<ToolConfig(<< <<"*">> >>, QUEUE_POLICY_DROP_OLDEST, 1, FALSE, FALSE, 0, TRUE, TRUE),
        ToolConfig(<<>>, QUEUE_POLICY_DROP_OLDEST, 1, FALSE, FALSE, 0, TRUE, TRUE)>> }

DrainInit ==
    /\ QueueIdle
    /\ HarnessIdle
    /\ LifeIdle
    /\ \E cfg \in DrainConfigs :
          registry = <<ConfiguredTool("A", cfg[1]), ConfiguredTool("B", cfg[2])>>
    /\ current_iterator = 0
    /\ bus = event_bus_init
    /\ pc = "fanout"
    /\ drain_tool = -1
    /\ published = 0
    /\ commands = 0
    /\ last_publish = PublishCall(NullPtr, NullPtr, FW_ERROR_INVALID_ARG)
    /\ matched = [i \in Tools |-> 0]
    /\ refused = [i \in Tools |-> 0]
    /\ cleared = [i \in Tools |-> 0]
    /\ gone = [i \in Tools |-> <<>>]
    /\ g_running = TRUE

(* The child of a running tool writes to its stdout *)
ChildWrite ==
    /\ writes < MaxWrites
    /\ \E i \in Tools :
          /\ registry[i].status = TOOL_RUNNING
          /\ \E chunk \in Chunks(registry[i].name) :
                pipe' = [pipe EXCEPT ![i] = pipe[i] \o chunk]
    /\ writes' = writes + 1
    /\ UNCHANGED <<line_buffer, line_from, line_done, pvars, ivars, fvars, qvars, kvars, lvars>>

(* Faulty variant of SocketDrainTool: what a line publishes is handed to    *)
(* the inboxes at once                                                      *)
SocketDrainTool_FanoutAtOnce ==
    /\ pc = "drain"
    /\ LET i == drain_tool + 1
           before == [line_buffer |-> line_buffer, line_from |-> line_from,
                      line_done |-> line_done, bus |-> bus,
                      current_iterator |-> current_iterator,
                      listed |-> listed, list_tool |-> list_tool]
           reads == registry[i].status = TOOL_RUNNING /\ pipe[i] # <<>>
       IN \E st \in {IF reads THEN AccumulateBytes(before, registry, pipe[i], i)
                     ELSE before} :
          \E r \in {ProcessBus([registry |-> registry, matched |-> matched,
                                refused |-> refused, gone |-> gone], st.bus)} :
             /\ pipe' = IF reads THEN [pipe EXCEPT ![i] = <<>>] ELSE pipe
             /\ line_buffer' = st.line_buffer
             /\ line_from' = st.line_from
             /\ line_done' = st.line_done
             /\ bus' = r.bus
             /\ registry' = r.st.registry
             /\ matched' = r.st.matched
             /\ refused' = r.st.refused
             /\ gone' = r.st.gone
             /\ listed' = st.listed
             /\ list_tool' = st.list_tool
             /\ current_iterator' = st.current_iterator + 1
             /\ drain_tool' = IF st.current_iterator + 1 < Len(registry)
                              THEN st.current_iterator + 1 ELSE -1
             /\ pc' = IF st.current_iterator + 1 < Len(registry) THEN "drain" ELSE "health"
    /\ UNCHANGED <<published, commands, last_publish, cleared, g_running, writes,
                   pvars, fvars, qvars, lvars>>

(* One pass of while (tool): platform_read_nonblocking on the stdout of a   *)
(* running tool, the bytes put into line_buffer, then tool = tool_get_next() *)
SocketDrainTool ==
    /\ pc = "drain"
    /\ LET i == drain_tool + 1
           before == [line_buffer |-> line_buffer, line_from |-> line_from,
                      line_done |-> line_done, bus |-> bus,
                      current_iterator |-> current_iterator,
                      listed |-> listed, list_tool |-> list_tool]
           reads == registry[i].status = TOOL_RUNNING /\ pipe[i] # <<>>
       IN \E st \in {IF reads THEN AccumulateBytes(before, registry, pipe[i], i)
                     ELSE before} :
             /\ pipe' = IF reads THEN [pipe EXCEPT ![i] = <<>>] ELSE pipe
             /\ line_buffer' = st.line_buffer
             /\ line_from' = st.line_from
             /\ line_done' = st.line_done
             /\ bus' = st.bus
             /\ listed' = st.listed
             /\ list_tool' = st.list_tool
             /\ current_iterator' = st.current_iterator + 1
             /\ drain_tool' = IF st.current_iterator + 1 < Len(registry)
                              THEN st.current_iterator + 1 ELSE -1
             /\ pc' = IF st.current_iterator + 1 < Len(registry) THEN "drain" ELSE "health"
    /\ UNCHANGED <<registry, published, commands, last_publish, matched, refused,
                   cleared, gone, g_running, writes, pvars, fvars, qvars, lvars>>

(* tool_check_health(); platform_sleep_ms(100); the loop goes round *)
SocketCheckHealth ==
    /\ pc = "health"
    /\ registry' = tool_check_health(registry)
    /\ pc' = "fanout"
    /\ UNCHANGED <<current_iterator, bus, drain_tool, published, commands, last_publish,
                   matched, refused, cleared, gone, g_running, hvars, qvars, lvars>>

DrainNext ==
    \/ EventProcessQueue
    \/ SocketDrainTool
    \/ SocketCheckHealth
    \/ ChildWrite

DrainSpec == DrainInit /\ [][DrainNext]_vars

(* C26: the bytes in framework_run's line buffer, and the bytes of every    *)
(* line it completes, were all read from the stdout of one tool: a partial  *)
(* line of one tool is never continued with bytes of another.               *)
C26_LinePerStream ==
    /\ Cardinality(line_from) <= 1
    /\ line_done # NULL => Cardinality(line_done.from) <= 1

(* C30: a drain that has begun goes from each tool to the next one of the   *)
(* registry and ends only after the last one, whatever list command is      *)
(* handled while it is in progress.                                         *)
C30_DrainVisitsEveryTool ==
    [][pc = "drain" =>
          /\ (pc' = "drain" /\ drain_tool' # drain_tool) => drain_tool' = drain_tool + 1
          /\ pc' = "health" => drain_tool = Len(registry) - 1]_vars

-----------------------------------------------------------------------------
(* The command-file transport of main.c: a client writes one command line  *)
(* to the command file, process_command_file answers in the response file   *)
(* and removes the command file.                                            *)

MaxFileCommands == 2    \* at most this many command files are written in a run
MaxExecuted == 3        \* command lines are executed while fewer than this many have been

(* The command lines clients write: a blank line, start <tool>, stop <tool> *)
CommandLines ==
    { [verb |-> verb, arg |-> i] : verb \in {"", "start", "stop"}, i \in Tools }

(* The control script: the old response file is removed, the command line  *)
(* is written to the command file                                           *)
ClientWrite ==
    /\ command_file = NULL
    /\ written < MaxFileCommands
    /\ \E cmd \in CommandLines :
          command_file' = [serial |-> written + 1, verb |-> cmd.verb, arg |-> cmd.arg]
    /\ response_file' = NULL
    /\ written' = written + 1
    /\ UNCHANGED <<executed, pvars, ivars, dvars, qvars, kvars, lvars>>

(* The control script has found the response file: it is shown, then both  *)
(* files are removed                                                        *)
ClientCollect ==
    /\ response_file # NULL
    /\ response_file' = NULL
    /\ command_file' = NULL
    /\ UNCHANGED <<executed, written, pvars, ivars, dvars, qvars, kvars, lvars>>

(* remove(COMMAND_FILE): the file is gone when the call succeeds *)
RemoveCommandFile(removed) ==
    command_file' = IF removed THEN NULL ELSE command_file

(* while (g_running): process_command_file.  Whether fopen(RESPONSE_FILE,   *)
(* "w") gives a stream, and whether remove(COMMAND_FILE) takes the file     *)
(* away (removed), is up to the file system.                                *)
FileProcessCommand ==
    /\ pc = "command"
    /\ g_running
    /\ pc' = "fanout"
    /\ \/ \* fopen(COMMAND_FILE, "r") finds no file
          /\ command_file = NULL
          /\ UNCHANGED <<command_file, response_file, executed, registry, cleared, gone>>
       \/ \* parsed < 1: a line with no word on it
          /\ command_file # NULL
          /\ command_file.verb = ""
          /\ \E removed \in BOOLEAN : RemoveCommandFile(removed)
          /\ UNCHANGED <<response_file, executed, registry, cleared, gone>>
       \/ \* !resp_file: "Failed to create response file"
          /\ command_file # NULL
          /\ command_file.verb # ""
          /\ \E removed \in BOOLEAN : RemoveCommandFile(removed)
          /\ UNCHANGED <<response_file, executed, registry, cleared, gone>>
       \/ \* the verb is executed, the response written and closed
          /\ command_file # NULL
          /\ command_file.verb # ""
          /\ Len(executed) < MaxExecuted
          /\ ControlVerb(command_file.verb, command_file.arg)
          /\ response_file' =
                [serial |-> command_file.serial,
                 verb |-> command_file.verb,
                 success |-> IF command_file.verb = "start"
                             THEN tool_start(registry[command_file.arg]).result = FW_OK
                             ELSE tool_stop(registry[command_file.arg]).result = FW_OK]
          /\ executed' = Append(executed, command_file.serial)
          /\ \E removed \in BOOLEAN : RemoveCommandFile(removed)
    /\ UNCHANGED <<written, current_iterator, bus, drain_tool, published, commands,
                   last_publish, matched, refused, g_running,
                   pvars, ivars, dvars, qvars, lvars>>

FileNext ==
    \/ ClientWrite
    \/ ClientCollect
    \/ FileProcessCommand
    \/ EventProcessQueue
    \/ DrainTool
    \/ CheckHealth

FileSpec == FairInit /\ [][FileNext]_vars

(* C27: whenever process_command_file removes the command file that held a  *)
(* command, the response file holds the response to that very command, and  *)
(* no command line is executed more than once.                              *)
C27_ResponseBeforeAck ==
    [][(/\ pc = "command"
        /\ pc' = "fanout"
        /\ command_file # NULL
        /\ command_file.verb # "")
       => /\ command_file' = NULL =>
                (response_file' # NULL /\ response_file'.serial = command_file.serial)
          /\ \A k \in 1..Len(executed) : executed[k] # command_file.serial
                \/ executed' = executed]_vars

-----------------------------------------------------------------------------
(* Claims about what the fan-out queues *)

(* C40: the fan-out queues an event for a tool at most once, however many   *)
(* of the tool's patterns match it: no line is twice among the lines that   *)
(* are or were in an inbox (every published event carries its own serial).  *)
C40_QueuedAtMostOnce ==
    \A i \in Tools :
        \A a, b \in 1..Len(History(i)) :
            History(i)[a] = History(i)[b] => a = b

(* Tool A holds the patterns '*' and X, which both match an event of type   *)
(* X, and such an event has been queued for it                              *)
C40_Witness ==
    /\ registry[1].subscriptions = << <<"'", "*", "'">>, <<"X">> >>
    /\ \E k \in 1..Len(History(1)) : History(1)[k][1] = "X"

-----------------------------------------------------------------------------
(* Claims about the inbox and the counters across stop, restart and crash   *)
(* restart.  Inboxes belong to the draft of tool.c that creates them        *)
(* (tool_register calling tool_queue_init), the build "windows" here.       *)

(* C32: a stop verb on a Running tool leaves the inbox empty, unless the    *)
(* tool is on-demand and has restart_on_crash set: then the inbox is what   *)
(* it was, line for line.                                                   *)
C32_StopClearsUnlessOnDemand ==
    (/\ life # NULL
     /\ build = "windows"
     /\ lastop.op = "stop"
     /\ lastop.before.status = TOOL_RUNNING)
    => IF lastop.before.is_on_demand /\ lastop.before.restart_on_crash
       THEN life.inbox = lastop.before.inbox
       ELSE /\ tool_queue_count(life.inbox) = 0
            /\ QueueLines(life.inbox) = <<>>

(* A Running on-demand tool with restart_on_crash and a line pending has    *)
(* been stopped                                                             *)
C32_Witness ==
    /\ life # NULL
    /\ build = "windows"
    /\ lastop.op = "stop"
    /\ lastop.before.status = TOOL_RUNNING
    /\ lastop.before.is_on_demand
    /\ lastop.before.restart_on_crash
    /\ tool_queue_count(lastop.before.inbox) > 0
    /\ life.status = TOOL_STOPPED

(* C33: when the health sweep restarts a crashed tool that is not both      *)
(* on-demand and restartable, the inbox of the tool is empty afterwards:    *)
(* the lines queued before the crash are gone.                              *)
C33_CrashRestartClearsInbox ==
    (/\ life # NULL
     /\ build = "windows"
     /\ lastop.op = "check_health"
     /\ lastop.spawned
     /\ ~(lastop.before.is_on_demand /\ lastop.before.restart_on_crash))
    => tool_queue_count(life.inbox) = 0

(* C37: a restart verb or a start verb leaves restart_count as it was: only *)
(* the restarts of the health sweep are counted.                            *)
C37_VerbsLeaveRestartCount ==
    (life # NULL /\ lastop.op \in {"start", "restart"})
        => life.restart_count = lastop.before.restart_count

(* The child the tool had when the last call came to platform_spawn_process: *)
(* the restart verb has stopped the tool by then                            *)
ProcessAtSpawn ==
    IF lastop.op = "restart"
    THEN (CASE build = "windows" -> tool_stop(lastop.before)
            [] build = "posix" -> tool_stop_posix(lastop.before, heeds_term)
            [] build = "portable" -> tool_stop_portable(lastop.before)).tool.process
    ELSE lastop.before.process

(* C38: platform_spawn_process is never called for a tool whose child of an *)
(* earlier spawn is still alive.                                            *)
C38_OneLiveChild ==
    (life # NULL /\ lastop.spawned) => ProcessAtSpawn # "alive"

(* C39: an on-demand tool that is Stopped is started whenever the fan-out   *)
(* queues a line for it, also when it was started on demand before and has  *)
(* been stopped since.                                                      *)
C39_OnDemandStartsAgain ==
    (/\ life # NULL
     /\ build = "windows"
     /\ lastop.op = "deliver"
     /\ lastop.result = FW_OK
     /\ lastop.before.is_on_demand
     /\ lastop.before.status = TOOL_STOPPED)
    => lastop.spawned

-----------------------------------------------------------------------------
(* tool_send_event: a line is written to the stdin of a tool *)

MaxSend == 2    \* lines are sent to the tool while events_sent is below this

(* What the write to the child's stdin can come to: every byte taken, the   *)
(* pipe full (the reader is alive and slow), or an error because the read   *)
(* end is gone                                                              *)
WriteOutcomes(tool) ==
    IF tool.process = "alive" /\ tool.pipes = "open"
    THEN {"written", "full"}
    ELSE {"failed"}

(* tool_send_event with WriteFile: anything but a complete write is an      *)
(* error, and the record is left as it is                                   *)
tool_send_event(tool, outcome) ==
    IF tool.status # TOOL_RUNNING
    THEN [tool |-> tool, result |-> FW_ERROR_GENERIC]
    ELSE IF outcome # "written"
    THEN [tool |-> tool, result |-> FW_ERROR_IO]
    ELSE [tool |-> [tool EXCEPT !.events_sent = tool.events_sent + 1],
          result |-> FW_OK]

(* platform_write_nonblocking: the bytes written, 0 for EAGAIN, else        *)
(* FW_ERROR_IO; size is the length of the line                              *)
platform_write_nonblocking(outcome, size) ==
    CASE outcome = "written" -> size
      [] outcome = "full" -> 0
      [] outcome = "failed" -> FW_ERROR_IO

(* tool_send_event with platform_write_nonblocking: a negative result is    *)
(* handed back; otherwise, a full pipe included, the line counts as sent    *)
tool_send_event_posix(tool, outcome) ==
    IF tool.status # TOOL_RUNNING
    THEN [tool |-> tool, result |-> FW_ERROR_GENERIC]
    ELSE LET result == platform_write_nonblocking(outcome, 6)
         IN IF result < 0
            THEN [tool |-> tool, result |-> result]
            ELSE [tool |-> [tool EXCEPT !.events_sent = tool.events_sent + 1],
                  result |-> FW_OK]

(* tool_send_event(name, line) *)
LifeSendEvent ==
    /\ life # NULL
    /\ life.events_sent < MaxSend
    /\ \E outcome \in WriteOutcomes(life) :
          \E r \in {IF build = "windows" THEN tool_send_event(life, outcome)
                    ELSE tool_send_event_posix(life, outcome)} :
             /\ life' = r.tool
             /\ lastop' = LifeCall("send", life, r.result, FALSE)
    /\ UNCHANGED <<hvars, qvars, kvars, build, heeds_term, spawns, episode>>

SendNext ==
    \/ LifeStart
    \/ LifeStop
    \/ LifeChildExit
    \/ LifeSendEvent

SendSpec == LifeInit /\ [][SendNext]_vars

(* C31: when the write of tool_send_event to the stdin of a Running tool    *)
(* fails because the child, the reader of the pipe, is gone, the tool is    *)
(* Crashed and its pipe ends are closed when the call returns.              *)
C31_FailedWriteCrashesTool ==
    (/\ life # NULL
     /\ lastop.op = "send"
     /\ lastop.before.status = TOOL_RUNNING
     /\ lastop.before.process # "alive"
     /\ lastop.result = FW_ERROR_IO)
    => (life.status = TOOL_CRASHED /\ life.pipes = "closed")

-----------------------------------------------------------------------------
(* Claims about the lines read from the tools and the order of the loop     *)

(* The three fields of a line with at least two separators: the text before *)
(* the first '|', the text between the first and the second, the rest       *)
LineFields(text) ==
    LET first == CHOOSE p \in 1..Len(text) :
                    text[p] = "|" /\ \A q \in 1..(p - 1) : text[q] # "|"
        second == CHOOSE p \in (first + 1)..Len(text) :
                    text[p] = "|" /\ \A q \in (first + 1)..(p - 1) : text[q] # "|"
    IN Event(SubSeq(text, 1, first - 1),
             SubSeq(text, first + 1, second - 1),
             SubSeq(text, second + 1, Len(text)))

(* C34: a complete line with at least two '|' that a drain pass has put     *)
(* together is published: the bus, when it had room, has grown, and its     *)
(* newest event carries the three fields of the line, whatever the type.    *)
C34_LinePublished ==
    [][(/\ pc = "drain"
        /\ line_done' # line_done
        /\ Separators(line_done'.text) >= 2
        /\ bus.count < MAX_EVENTS_QUEUE)
       => /\ bus'.count > bus.count
          /\ BusEvents(bus')[bus'.count] = LineFields(line_done'.text)]_vars

(* C35: once line_buffer has been filled to the cap, a read that ends with  *)
(* a newline still ends a line: the buffer is empty after the pass, so      *)
(* that the lines which follow are put together and parsed.                 *)
C35_ReassemblyContinues ==
    [][(/\ pc = "drain"
        /\ Len(line_buffer) >= LINE_BUFFER_SIZE - 1
        /\ registry[drain_tool + 1].status = TOOL_RUNNING
        /\ pipe[drain_tool + 1] # <<>>
        /\ pipe[drain_tool + 1][Len(pipe[drain_tool + 1])] = "\n")
       => line_buffer' = <<>>]_vars

=============================================================================
